---------------------------- MODULE Spec2Model ----------------------------
(***************************************************************************)
(* A model of the helpdesk filter-criterion builder (helpdesk/api/doc.py),  *)
(* of the external-API bridge (helpdesk/api/external_integration.py,       *)
(* doctype hd_external_integration_settings), of the AI entry points       *)
(* (helpdesk/api/ai.py) and of the customer fix script                     *)
(* (helpdesk/debug_fix_customers.py).                                      *)
(*                                                                         *)
(* Python objects are tagged records [t |-> type, v |-> payload]; a Python *)
(* str is a sequence of one-character strings, so that lower(), strip(),   *)
(* split(","), startswith() and the "%" test are computed, not assumed.    *)
(***************************************************************************)
EXTENDS Integers, Sequences, FiniteSets, TLC

VARIABLES
    conditions,   \* build_complex_criterion: the `conditions` argument
    criterion,    \* build_complex_criterion: the returned Criterion / None
    leaf,         \* _build_single_criterion: [field, operator, value] arguments
    leaf_result,  \* _build_single_criterion: the returned Criterion / None
    filters,      \* parse_filters_for_complex: the `filters` object (after the call)
    parsed,       \* parse_filters_for_complex: the call's argument and return value
    settings,     \* the stored HD External Integration Settings single document
    api_call,     \* call_external_api: arguments, HTTP requests issued, outcome
    last_save,    \* HD External Integration Settings: outcome of the last save
    hd_settings,  \* HD Settings: enable_ai_summary, enable_ai_tag_annotation, openai_api_key
    ticket,       \* the HD Ticket of the model: its summary and its tags
    tag_list,     \* the tags available for HD Ticket
    ai_call,      \* the latest operation of helpdesk/api/ai.py: arguments, effects, outcome
    hd_tickets,   \* the HD Ticket table: customer, contact, participant_emails, subject of each ticket
    fix_run       \* fix_tickets_without_customer: arguments, writes, commits, returned stats

vars == <<conditions, criterion, leaf, leaf_result, filters, parsed, settings, api_call, last_save, hd_settings, ticket, tag_list, ai_call, hd_tickets, fix_run>>

-----------------------------------------------------------------------------
(* Python values *)

PyStr(s) == [t |-> "str", v |-> s]
PyList(xs) == [t |-> "list", v |-> xs]
PyTuple(xs) == [t |-> "tuple", v |-> xs]
PyInt(n) == [t |-> "int", v |-> n]
PyDict(f) == [t |-> "dict", v |-> f]
PyNone == [t |-> "none", v |-> <<>>]

\* The value of a variable that the running specification does not use.
Unused == [t |-> "unused", v |-> <<>>]
\* The result slot of a call that has not been made yet.
Pending == [k |-> "pending"]

-----------------------------------------------------------------------------
(* Python str operations on character sequences *)

UpperAlpha == <<"A","B","C","D","E","F","G","H","I","J","K","L","M",
                "N","O","P","Q","R","S","T","U","V","W","X","Y","Z">>
LowerAlpha == <<"a","b","c","d","e","f","g","h","i","j","k","l","m",
                "n","o","p","q","r","s","t","u","v","w","x","y","z">>

LowerChar(c) ==
    IF \E i \in DOMAIN UpperAlpha : UpperAlpha[i] = c
    THEN LowerAlpha[CHOOSE i \in DOMAIN UpperAlpha : UpperAlpha[i] = c]
    ELSE c

UpperChar(c) ==
    IF \E i \in DOMAIN LowerAlpha : LowerAlpha[i] = c
    THEN UpperAlpha[CHOOSE i \in DOMAIN LowerAlpha : LowerAlpha[i] = c]
    ELSE c

\* s.lower()
Lower(s) == [i \in 1..Len(s) |-> LowerChar(s[i])]

\* s.upper()
Upper(s) == [i \in 1..Len(s) |-> UpperChar(s[i])]

\* c in s, for a single character c
Contains(s, c) == \E i \in 1..Len(s) : s[i] = c

\* s.startswith(p)
StartsWith(s, p) == Len(s) >= Len(p) /\ SubSeq(s, 1, Len(p)) = p

IsSpace(c) == c \in {" ", "\t", "\n"}

\* s.strip(): leading and trailing whitespace removed
Strip(s) ==
    IF \A i \in 1..Len(s) : IsSpace(s[i])
    THEN <<>>
    ELSE LET first == CHOOSE i \in 1..Len(s) :
                        ~IsSpace(s[i]) /\ \A j \in 1..(i-1) : IsSpace(s[j])
             last  == CHOOSE i \in 1..Len(s) :
                        ~IsSpace(s[i]) /\ \A j \in (i+1)..Len(s) : IsSpace(s[j])
         IN  SubSeq(s, first, last)

\* s.split(","): the pieces between commas, in order (k commas give k+1 pieces)
RECURSIVE SplitComma(_)
SplitComma(s) ==
    IF ~Contains(s, ",")
    THEN <<s>>
    ELSE LET i == CHOOSE j \in 1..Len(s) :
                    s[j] = "," /\ \A k \in 1..(j-1) : s[k] # ","
         IN  <<SubSeq(s, 1, i-1)>> \o SplitComma(SubSeq(s, i+1, Len(s)))

Digits == <<"0","1","2","3","4","5","6","7","8","9">>

\* repr() of a list element (a str is quoted, an int is not)
ReprOf(x) ==
    IF x.t = "str" THEN <<"'">> \o x.v \o <<"'">> ELSE <<Digits[x.v + 1]>>

RECURSIVE JoinRepr(_)
JoinRepr(xs) ==
    IF Len(xs) = 0 THEN <<>>
    ELSE IF Len(xs) = 1 THEN ReprOf(xs[1])
    ELSE ReprOf(xs[1]) \o <<",", " ">> \o JoinRepr(Tail(xs))

\* str(value)
StrOf(x) ==
    CASE x.t = "str"   -> x.v
      [] x.t = "int"   -> <<Digits[x.v + 1]>>
      [] x.t = "none"  -> <<"N","o","n","e">>
      [] x.t = "list"  -> <<"[">> \o JoinRepr(x.v) \o <<"]">>
      [] x.t = "tuple" -> <<"(">> \o JoinRepr(x.v) \o <<")">>

-----------------------------------------------------------------------------
(* pypika criteria, as the trees the builder returns *)

\* None: no predicate
NoCriterion == [k |-> "None"]

\* table.<name>: a Field of the table
Field(name) == [k |-> "field", name |-> name]

\* column <op> value  (==, !=, >, >=, <, <=, like, not like, in, not in)
Basic(op, column, value) == [k |-> "basic", op |-> op, column |-> column, value |-> value]

\* column IS NULL / column IS NOT NULL
IsNull(column) == [k |-> "isnull", column |-> column]
IsNotNull(column) == [k |-> "isnotnull", column |-> column]

\* left & right, left | right
And(left, right) == [k |-> "and", left |-> left, right |-> right]
Or(left, right) == [k |-> "or", left |-> left, right |-> right]

-----------------------------------------------------------------------------
(* _build_single_criterion *)

\* The attributes of the query-builder Table object that are bound to None.
\* The table is frappe.qb.DocType(doctype), a pypika Table: it carries no
\* schema, and attribute lookup on it builds a Field for every other name.
TableNoneAttrs == { <<"a","l","i","a","s">> }

\* getattr(table, field, None)
GetAttr(field) ==
    IF field \in TableNoneAttrs THEN NoCriterion ELSE Field(field)

\* SearchVal with the wildcard test on the two ends of the value only
SearchVal_EndsOnly(value) ==
    LET str == StrOf(value)
    IN  IF Len(str) > 0 /\ str[1] = "%" /\ str[Len(str)] = "%"
        THEN value
        ELSE PyStr(<<"%">> \o str \o <<"%">>)

\* search_val = value if "%" in str(value) else f"%{value}%"
SearchVal(value) ==
    IF Contains(StrOf(value), "%")
    THEN value
    ELSE PyStr(<<"%">> \o StrOf(value) \o <<"%">>)

\* MembershipSet with the pieces left as split() gives them
MembershipSet_NoStrip(value) ==
    IF value.t = "str"
    THEN LET parts == SplitComma(value.v)
         IN  PyList([i \in 1..Len(parts) |-> PyStr(parts[i])])
    ELSE value

\* if isinstance(value, str): value = [v.strip() for v in value.split(",")]
MembershipSet(value) ==
    IF value.t = "str"
    THEN LET parts == SplitComma(value.v)
         IN  PyList([i \in 1..Len(parts) |-> PyStr(Strip(parts[i]))])
    ELSE value

\* IsCriterion with the keyword compared in the case it was written
IsCriterion_CaseSensitive(column, value) ==
    IF StrOf(value) = <<"s","e","t">>
    THEN And(IsNotNull(column), Basic("!=", column, PyStr(<<>>)))
    ELSE Or(IsNull(column), Basic("==", column, PyStr(<<>>)))

\* str(value).lower() == "set" chooses between the two null-or-empty tests
IsCriterion(column, value) ==
    IF Lower(StrOf(value)) = <<"s","e","t">>
    THEN And(IsNotNull(column), Basic("!=", column, PyStr(<<>>)))
    ELSE Or(IsNull(column), Basic("==", column, PyStr(<<>>)))

\* the two accepted forms of a between value
BetweenIsString(value) == value.t = "str" /\ Contains(value.v, ",")
BetweenIsPair(value) == value.t \in {"list", "tuple"} /\ Len(value.v) = 2

\* BetweenCriterion with the bounds excluded
BetweenCriterion_Exclusive(column, value) ==
    IF BetweenIsString(value)
    THEN LET parts == SplitComma(value.v)
         IN  And(Basic(">", column, PyStr(Strip(parts[1]))),
                 Basic("<", column, PyStr(Strip(parts[2]))))
    ELSE And(Basic(">", column, value.v[1]), Basic("<", column, value.v[2]))

\* the range test of a between value of either form
BetweenCriterion(column, value) ==
    IF BetweenIsString(value)
    THEN LET parts == SplitComma(value.v)
         IN  And(Basic(">=", column, PyStr(Strip(parts[1]))),
                 Basic("<=", column, PyStr(Strip(parts[2]))))
    ELSE And(Basic(">=", column, value.v[1]), Basic("<=", column, value.v[2]))

OpsEq == { <<"=">>, <<"=","=">>, <<"e","q","u","a","l","s">> }
OpsNe == { <<"!","=">>, <<"n","o","t"," ","e","q","u","a","l","s">> }
OpsLike == { <<"l","i","k","e">>, <<"L","I","K","E">> }
OpsNotLike == { <<"n","o","t"," ","l","i","k","e">>, <<"N","O","T"," ","L","I","K","E">> }
OpIn == <<"i","n">>
OpsNotIn == { <<"n","o","t"," ","i","n">>, <<"n","o","t","_","i","n">> }
OpIs == <<"i","s">>
OpBetween == <<"b","e","t","w","e","e","n">>

\* _build_single_criterion(table, field, operator, value); field and operator
\* are character sequences (both are str whenever the builder is reached)
_build_single_criterion(field, operator, value) ==
    LET column == GetAttr(field)
        op == Lower(operator)
    IN  IF column.k = "None" THEN NoCriterion
        ELSE IF op \in OpsEq THEN Basic("==", column, value)
        ELSE IF op \in OpsNe THEN Basic("!=", column, value)
        ELSE IF op = <<">">> THEN Basic(">", column, value)
        ELSE IF op = <<">","=">> THEN Basic(">=", column, value)
        ELSE IF op = <<"<">> THEN Basic("<", column, value)
        ELSE IF op = <<"<","=">> THEN Basic("<=", column, value)
        ELSE IF op \in OpsLike THEN Basic("like", column, SearchVal(value))
        ELSE IF op \in OpsNotLike THEN Basic("not like", column, SearchVal(value))
        ELSE IF op = OpIn THEN Basic("in", column, MembershipSet(value))
        ELSE IF op \in OpsNotIn THEN Basic("not in", column, MembershipSet(value))
        ELSE IF op = OpIs THEN IsCriterion(column, value)
        ELSE IF op = OpBetween /\ (BetweenIsString(value) \/ BetweenIsPair(value))
             THEN BetweenCriterion(column, value)
        ELSE Basic("==", column, value)

-----------------------------------------------------------------------------
(* build_complex_criterion *)

TokAnd == <<"a","n","d">>
TokOr == <<"o","r">>

\* isinstance(item, str) and item.lower() in ("and", "or")
IsConjunction(item) == item.t = "str" /\ Lower(item.v) \in {TokAnd, TokOr}

\* _is_simple_condition(conditions), conditions being the list's items
_is_simple_condition(c) ==
    /\ Len(c) = 3
    /\ c[1].t = "str"
    /\ c[2].t = "str"
    /\ Lower(c[1].v) \notin {TokAnd, TokOr}
    /\ Lower(c[2].v) \notin {TokAnd, TokOr}

\* the loop's `conjunctions`: the lowered tokens, in order of appearance
RECURSIVE CollectConjunctions(_)
CollectConjunctions(c) ==
    IF Len(c) = 0 THEN <<>>
    ELSE (IF IsConjunction(c[1]) THEN <<Lower(c[1].v)>> ELSE <<>>)
         \o CollectConjunctions(Tail(c))

\* result = result | criterion  /  result = result & criterion
Join(conj, left, right) == IF conj = TokOr THEN Or(left, right) ELSE And(left, right)

\* Combine with every step taking the first conjunction
RECURSIVE Combine_FirstConjunction(_, _, _)
Combine_FirstConjunction(criteria, conjunctions, n) ==
    IF n = 0 THEN criteria[1]
    ELSE LET conj == IF 1 <= Len(conjunctions) THEN conjunctions[1] ELSE TokAnd
         IN  Join(conj, Combine_FirstConjunction(criteria, conjunctions, n - 1),
                  criteria[n + 1])

\* the combining loop, after its first n steps (n = 0: criteria[0])
RECURSIVE Combine(_, _, _)
Combine(criteria, conjunctions, n) ==
    IF n = 0 THEN criteria[1]
    ELSE LET conj == IF n <= Len(conjunctions) THEN conjunctions[n] ELSE TokAnd
         IN  Join(conj, Combine(criteria, conjunctions, n - 1), criteria[n + 1])

RECURSIVE build_complex_criterion(_)
RECURSIVE CollectCriteria(_)

\* the loop's `criteria`: the non-None criteria of the list items, in order
CollectCriteria(c) ==
    IF Len(c) = 0 THEN <<>>
    ELSE LET item == c[1]
             built == IF ~IsConjunction(item) /\ item.t = "list"
                      THEN build_complex_criterion(item.v)
                      ELSE NoCriterion
         IN  (IF built.k = "None" THEN <<>> ELSE <<built>>) \o CollectCriteria(Tail(c))

\* build_complex_criterion(doctype, conditions, table), conditions being a list
build_complex_criterion(c) ==
    IF Len(c) = 0 THEN NoCriterion
    ELSE IF _is_simple_condition(c) THEN _build_single_criterion(c[1].v, c[2].v, c[3])
    ELSE LET criteria == CollectCriteria(c)
             found == CollectConjunctions(c)
             conjunctions == IF Len(found) = 0
                             THEN [i \in 1..(Len(criteria) - 1) |-> TokAnd]
                             ELSE found
         IN  IF Len(criteria) = 0 THEN NoCriterion
             ELSE IF Len(criteria) = 1 THEN criteria[1]
             ELSE Combine(criteria, conjunctions, Len(criteria) - 1)

-----------------------------------------------------------------------------
(* The filter expressions and leaves the specifications draw their inputs from *)

MaxSymbols == 7  \* leaves, tokens and brackets in one written filter expression, at most
MaxStrLen == 4   \* length of the generated leaf values, at most

FldStatus == <<"s","t","a","t","u","s">>
FldPriority == <<"p","r","i","o","r","i","t","y">>
FldTypo == <<"s","t","a","t","u","z">>
FldAlias == <<"a","l","i","a","s">>

\* The fields of the doctype the filters are built for.
DocFields == {FldStatus, FldPriority}

LeafA == PyList(<<PyStr(FldStatus), PyStr(<<"=">>), PyStr(<<"O","p","e","n">>)>>)
LeafB == PyList(<<PyStr(FldPriority), PyStr(<<"i","n">>), PyStr(<<"H","i",","," ","L","o">>)>>)
LeafTypo == PyList(<<PyStr(FldTypo), PyStr(<<"=">>), PyStr(<<"O","p","e","n">>)>>)
LeafNone == PyList(<<PyStr(FldAlias), PyStr(<<"=">>), PyStr(<<"x">>)>>)

\* A filter expression as it is written: leaves, conjunction tokens, and the
\* brackets of the nested groups, in order.
Symbols == {"[", "]", "and", "or", "A", "T"}

SymbolValue(sym) ==
    CASE sym = "and" -> PyStr(TokAnd)
      [] sym = "or"  -> PyStr(TokOr)
      [] sym = "A"   -> LeafA
      [] sym = "T"   -> LeafTypo

\* every "]" closes an open "[", and none stays open
RECURSIVE OpenAfter(_, _)
OpenAfter(text, n) ==
    IF n = 0 THEN 0
    ELSE OpenAfter(text, n - 1)
         + (IF text[n] = "[" THEN 1 ELSE IF text[n] = "]" THEN -1 ELSE 0)

Balanced(text) ==
    /\ \A n \in 1..Len(text) : OpenAfter(text, n) >= 0
    /\ OpenAfter(text, Len(text)) = 0

\* the items written from position i up to the bracket that closes them
RECURSIVE ReadItems(_, _)
ReadItems(text, i) ==
    IF i > Len(text) THEN [items |-> <<>>, next |-> i]
    ELSE IF text[i] = "]" THEN [items |-> <<>>, next |-> i + 1]
    ELSE IF text[i] = "["
         THEN LET sub == ReadItems(text, i + 1)
                  rest == ReadItems(text, sub.next)
              IN  [items |-> <<PyList(sub.items)>> \o rest.items, next |-> rest.next]
         ELSE LET rest == ReadItems(text, i + 1)
              IN  [items |-> <<SymbolValue(text[i])>> \o rest.items, next |-> rest.next]

\* the `conditions` list a written expression stands for
Conditions(text) == ReadItems(text, 1).items

\* expressions written with other spellings: upper-case tokens, other leaves
\* (one on an attribute that is None), a string that is no conjunction, a
\* non-list item, bare leaves
ExtraInputs ==
    { <<LeafA, PyStr(<<"A","N","D">>), LeafB>>,
      <<LeafNone, PyStr(TokAnd), LeafA>>,
      <<LeafA, PyStr(TokOr), LeafNone, PyStr(TokAnd), LeafB>>,
      <<LeafNone, PyStr(TokOr), PyList(<<LeafNone>>)>>,
      <<PyList(<<LeafNone, PyStr(TokOr), LeafA>>), PyStr(TokAnd), LeafB>>,
      <<LeafA, PyStr(<<"O","r">>), LeafB, PyStr(TokAnd), LeafTypo>>,
      <<LeafA, PyStr(<<"x","o","r">>), LeafB>>,
      <<LeafA, PyInt(1), LeafB>>,
      <<PyStr(TokAnd), PyStr(<<"=">>), PyStr(<<"x">>)>>,
      <<PyStr(FldStatus), PyStr(TokOr), PyStr(<<"x">>)>>,
      LeafA.v, LeafB.v, LeafTypo.v, LeafNone.v }

-----------------------------------------------------------------------------
(* Specification of the expression builder: one call on any expression *)

InitCriterion ==
    /\ \/ \E n \in 0..MaxSymbols : \E text \in [1..n -> Symbols] :
              Balanced(text) /\ conditions = Conditions(text)
       \/ conditions \in ExtraInputs
    /\ criterion = Pending
    /\ leaf = Unused /\ leaf_result = Unused
    /\ filters = Unused /\ parsed = Unused
    /\ settings = Unused /\ api_call = Unused
    /\ last_save = Unused
    /\ hd_settings = Unused
    /\ ticket = Unused
    /\ tag_list = Unused
    /\ ai_call = Unused
    /\ hd_tickets = Unused
    /\ fix_run = Unused

\* criterion = build_complex_criterion(doctype, conditions, table)
BuildCriterion ==
    /\ criterion = Pending
    /\ criterion' = build_complex_criterion(conditions)
    /\ UNCHANGED <<conditions, leaf, leaf_result, filters, parsed, settings, api_call, last_save, hd_settings, ticket, tag_list, ai_call, hd_tickets, fix_run>>

NextCriterion == BuildCriterion

SpecCriterion == InitCriterion /\ [][NextCriterion]_vars

-----------------------------------------------------------------------------
(* Specification of the leaf builder: one call on any (field, operator, value) *)

ValueChars == {"a", "%", ",", " "}

LeafFields == {FldStatus, FldTypo, FldAlias}

LeafOperators ==
    OpsEq \cup OpsNe \cup OpsLike \cup OpsNotLike \cup OpsNotIn
    \cup { <<">">>, <<">","=">>, <<"<">>, <<"<","=">>,
           <<"L","i","k","e">>, OpIn, <<"I","N">>, <<"N","o","t"," ","I","n">>,
           OpIs, <<"I","S">>, OpBetween, <<"B","e","t","w","e","e","n">>,
           <<"c","o","n","t","a","i","n","s">> }

\* values that are no generated string: the IS keywords, numbers, None, sequences
ExtraValues ==
    { PyStr(<<"s","e","t">>), PyStr(<<"S","E","T">>), PyStr(<<"S","e","t">>),
      PyStr(<<"n","o","t"," ","s","e","t">>), PyStr(<<"N","o","t"," ","S","e","t">>),
      PyStr(<<"u","n","s","e","t">>),
      PyStr(<<" ","a"," ",","," ","a","a"," ">>),
      PyInt(5), PyNone,
      PyList(<<PyStr(<<"a">>), PyStr(<<"a","a">>)>>),
      PyTuple(<<PyInt(1), PyInt(9)>>),
      PyList(<<PyStr(<<"a">>)>>),
      PyList(<<PyInt(1), PyInt(5), PyInt(9)>>),
      PyList(<<PyStr(<<"a","%">>), PyStr(<<"a">>)>>) }

InitLeaf ==
    /\ \E f \in LeafFields, o \in LeafOperators :
          \/ \E n \in 0..MaxStrLen : \E str \in [1..n -> ValueChars] :
                leaf = [field |-> f, operator |-> o, value |-> PyStr(str)]
          \/ \E val \in ExtraValues :
                leaf = [field |-> f, operator |-> o, value |-> val]
    /\ leaf_result = Pending
    /\ conditions = Unused /\ criterion = Unused
    /\ filters = Unused /\ parsed = Unused
    /\ settings = Unused /\ api_call = Unused
    /\ last_save = Unused
    /\ hd_settings = Unused
    /\ ticket = Unused
    /\ tag_list = Unused
    /\ ai_call = Unused
    /\ hd_tickets = Unused
    /\ fix_run = Unused

\* leaf_result = _build_single_criterion(table, field, operator, value)
BuildLeaf ==
    /\ leaf_result = Pending
    /\ leaf_result' = _build_single_criterion(leaf.field, leaf.operator, leaf.value)
    /\ UNCHANGED <<conditions, criterion, leaf, filters, parsed, settings, api_call, last_save, hd_settings, ticket, tag_list, ai_call, hd_tickets, fix_run>>

NextLeaf == BuildLeaf

SpecLeaf == InitLeaf /\ [][NextLeaf]_vars

-----------------------------------------------------------------------------
(* Claims about build_complex_criterion *)

\* a leaf triple (field, operator, value) for which the builder has a predicate
YieldingLeaf(c) ==
    /\ Len(c) = 3
    /\ c[1].t = "str" /\ c[2].t = "str"
    /\ ~IsConjunction(c[1]) /\ ~IsConjunction(c[2])
    /\ _build_single_criterion(c[1].v, c[2].v, c[3]).k # "None"

\* sub-expressions at the odd places, conjunction tokens at the even places
Alternating(c) ==
    /\ Len(c) % 2 = 1
    /\ \A i \in 1..Len(c) :
          IF i % 2 = 1 THEN c[i].t = "list" ELSE IsConjunction(c[i])

\* an expression of the documented format, every leaf of which yields a predicate
RECURSIVE WellFormed(_)
WellFormed(c) ==
    \/ YieldingLeaf(c)
    \/ /\ Alternating(c)
       /\ \A i \in 1..Len(c) : i % 2 = 1 => WellFormed(c[i].v)

\* ((p1 j1 p2) j2 p3) ... up to the n-th sub-expression of an alternating list
RECURSIVE LeftFold(_, _)
LeftFold(c, n) ==
    IF n = 1 THEN build_complex_criterion(c[1].v)
    ELSE LET left == LeftFold(c, n - 1)
             right == build_complex_criterion(c[2 * n - 1].v)
         IN  IF Lower(c[2 * n - 2].v) = TokOr THEN Or(left, right) ELSE And(left, right)

\* C1: for a well-formed expression of n sub-expressions separated by n-1
\* conjunction tokens, the builder returns the left-to-right fold of the
\* sub-expressions' predicates under the tokens as written; only sub-lists group.
C1_LeftFoldAsWritten ==
    (criterion # Pending /\ Alternating(conditions) /\ WellFormed(conditions))
        => criterion = LeftFold(conditions, (Len(conditions) + 1) \div 2)

\* C1 witness: a well-formed "p or q and r" was built: the OR is the left
\* operand of the AND, so AND took no precedence.
C1_Witness ==
    /\ criterion # Pending
    /\ WellFormed(conditions)
    /\ Len(conditions) = 5
    /\ Lower(conditions[2].v) = TokOr /\ Lower(conditions[4].v) = TokAnd
    /\ criterion.k = "and" /\ criterion.left.k = "or"

\* the places of the sub-expressions of a list
SubPlaces(c) == { i \in 1..Len(c) : c[i].t = "list" }

\* the n-th smallest element of a set of numbers
RECURSIVE Nth(_, _)
Nth(set, n) ==
    LET least == CHOOSE x \in set : \A y \in set : x <= y
    IN  IF n = 1 THEN least ELSE Nth(set \ {least}, n - 1)

\* every leaf of the expression is on a field of the doctype
RECURSIVE OnDocFields(_)
OnDocFields(c) ==
    IF Len(c) = 3 /\ c[1].t = "str" /\ c[2].t = "str"
    THEN c[1].v \in DocFields
    ELSE \A i \in 1..Len(c) : c[i].t = "list" => OnDocFields(c[i].v)

\* two or more predicate-yielding sub-expressions on fields of the doctype, each
\* pair of neighbours either adjacent (the conjunction is missing) or separated
\* by exactly one token
MissingConjunctions(c) ==
    LET places == SubPlaces(c)
    IN  /\ Cardinality(places) >= 2
        /\ 1 \in places /\ Len(c) \in places
        /\ \A i \in 1..Len(c) :
              IF i \in places THEN WellFormed(c[i].v) /\ OnDocFields(c[i].v)
              ELSE IsConjunction(c[i]) /\ (i - 1) \in places /\ (i + 1) \in places
        /\ \E i \in places : (i + 1) \in places

\* the fold in which the conjunction of two neighbours is the token written
\* between them, and AND where none is written
RECURSIVE PlaceFold(_, _)
PlaceFold(c, n) ==
    LET at == Nth(SubPlaces(c), n)
    IN  IF n = 1 THEN build_complex_criterion(c[at].v)
        ELSE LET left == PlaceFold(c, n - 1)
                 right == build_complex_criterion(c[at].v)
                 written == ~((at - 1) \in SubPlaces(c))
             IN  IF written /\ Lower(c[at - 1].v) = TokOr
                 THEN Or(left, right) ELSE And(left, right)

\* C2: in a list with fewer conjunction tokens than needed, the predicates at
\* a place where no token is written are joined with AND (and the others with
\* the token written between them).
C2_MissingConjunctionIsAnd ==
    (criterion # Pending /\ MissingConjunctions(conditions))
        => criterion = PlaceFold(conditions, Cardinality(SubPlaces(conditions)))

\* the expression with every leaf on a field that the doctype does not have removed
RECURSIVE WithoutUnknownLeaves(_)
WithoutUnknownLeaves(c) ==
    IF Len(c) = 0 THEN <<>>
    ELSE LET item == c[1]
             rest == WithoutUnknownLeaves(Tail(c))
         IN  IF item.t # "list" THEN <<item>> \o rest
             ELSE IF _is_simple_condition(item.v)
                  THEN (IF item.v[1].v \in DocFields THEN <<item>> ELSE <<>>) \o rest
                  ELSE <<PyList(WithoutUnknownLeaves(item.v))>> \o rest

\* C3: a leaf on a field the doctype does not have yields None; a compound
\* expression is built as if such leaves were not written, and is None when
\* nothing remains.
C3_UnknownFieldDropped ==
    criterion # Pending =>
        IF _is_simple_condition(conditions)
        THEN conditions[1].v \notin DocFields => criterion = NoCriterion
        ELSE criterion = build_complex_criterion(WithoutUnknownLeaves(conditions))

-----------------------------------------------------------------------------
(* query.where(criterion): the rows a null-or-empty test keeps *)

\* what the column of a row may hold: NULL, the empty string, some text
SqlNull == PyNone
ColumnValues == {SqlNull, PyStr(<<>>), PyStr(<<"a">>)}

\* SQL's three truth values
SqlNot(x) == CASE x = "true" -> "false" [] x = "false" -> "true" [] x = "unknown" -> "unknown"
SqlAnd(x, y) ==
    IF x = "false" \/ y = "false" THEN "false"
    ELSE IF x = "true" /\ y = "true" THEN "true" ELSE "unknown"
SqlOr(x, y) == SqlNot(SqlAnd(SqlNot(x), SqlNot(y)))

\* the truth value of a criterion on a row holding `held` in the column
RECURSIVE SqlValue(_, _)
SqlValue(crit, held) ==
    CASE crit.k = "isnull" -> IF held = SqlNull THEN "true" ELSE "false"
      [] crit.k = "isnotnull" -> IF held = SqlNull THEN "false" ELSE "true"
      [] crit.k = "basic" /\ crit.op = "==" ->
            IF held = SqlNull THEN "unknown"
            ELSE IF held = crit.value THEN "true" ELSE "false"
      [] crit.k = "basic" /\ crit.op = "!=" ->
            IF held = SqlNull THEN "unknown"
            ELSE IF held = crit.value THEN "false" ELSE "true"
      [] crit.k = "and" -> SqlAnd(SqlValue(crit.left, held), SqlValue(crit.right, held))
      [] crit.k = "or" -> SqlOr(SqlValue(crit.left, held), SqlValue(crit.right, held))

\* WHERE keeps the rows on which the criterion is true
Keeps(crit, held) == SqlValue(crit, held) = "true"

-----------------------------------------------------------------------------
(* Claims about _build_single_criterion *)

\* the call was made and the field gave a column
LeafBuilt == leaf_result # Pending /\ leaf.field \notin TableNoneAttrs

LeafColumn == Field(leaf.field)

\* the value has a "%" somewhere in its text
HasPercent(value) == \E i \in 1..Len(StrOf(value)) : StrOf(value)[i] = "%"

\* C4: for like / not like the pattern is the value itself when the value
\* contains a "%" anywhere, and %value% otherwise; like gives LIKE and not like
\* gives NOT LIKE on that pattern.
C4_LikePattern ==
    LET op == Lower(leaf.operator)
        kind == IF op = <<"l","i","k","e">> THEN "like" ELSE "not like"
        pattern == IF HasPercent(leaf.value)
                   THEN leaf.value
                   ELSE PyStr(<<"%">> \o StrOf(leaf.value) \o <<"%">>)
    IN  (LeafBuilt /\ op \in {<<"l","i","k","e">>, <<"n","o","t"," ","l","i","k","e">>})
            => leaf_result = Basic(kind, LeafColumn, pattern)

\* C4 witness: not like was built on a value whose only "%" is in the middle,
\* and the pattern is that value.
C4_Witness ==
    /\ LeafBuilt
    /\ leaf.operator = <<"n","o","t"," ","l","i","k","e">>
    /\ leaf.value = PyStr(<<"a","%","a">>)
    /\ leaf_result = Basic("not like", LeafColumn, leaf.value)

\* the places of the commas of a string, and the text between two of them
CommaPlaces(str) == { i \in 1..Len(str) : str[i] = "," }

Piece(str, n) ==
    LET cuts == CommaPlaces(str)
        from == IF n = 1 THEN 1 ELSE Nth(cuts, n - 1) + 1
        to == IF n = Cardinality(cuts) + 1 THEN Len(str) ELSE Nth(cuts, n) - 1
    IN  SubSeq(str, from, to)

\* `short` is `long` without its leading and trailing whitespace
IsStripped(short, long) ==
    /\ short = <<>> \/ (~IsSpace(short[1]) /\ ~IsSpace(short[Len(short)]))
    /\ \E lead, trail \in 0..Len(long) :
          /\ lead + Len(short) + trail = Len(long)
          /\ \A i \in 1..lead : IsSpace(long[i])
          /\ \A i \in 1..Len(short) : short[i] = long[lead + i]
          /\ \A i \in 1..trail : IsSpace(long[lead + Len(short) + i])

\* C5: for in / not in / not_in a string value becomes the list of its
\* comma-separated pieces, each without surrounding whitespace, and any other
\* value is used as it is; in gives membership, not in non-membership.
C5_MembershipSet ==
    LET op == Lower(leaf.operator)
        kind == IF op = OpIn THEN "in" ELSE "not in"
        value == leaf.value
        got == leaf_result.value
    IN  (LeafBuilt /\ op \in {OpIn} \cup OpsNotIn) =>
            /\ leaf_result.k = "basic"
            /\ leaf_result.op = kind
            /\ leaf_result.column = LeafColumn
            /\ IF value.t = "str"
               THEN /\ got.t = "list"
                    /\ Len(got.v) = Cardinality(CommaPlaces(value.v)) + 1
                    /\ \A n \in 1..Len(got.v) :
                          got.v[n].t = "str" /\ IsStripped(got.v[n].v, Piece(value.v, n))
               ELSE got = value

\* C5 witness: not in was built on a string with a comma and padded pieces.
C5_Witness ==
    /\ LeafBuilt
    /\ Lower(leaf.operator) \in OpsNotIn
    /\ leaf.value = PyStr(<<" ","a"," ",","," ","a","a"," ">>)
    /\ leaf_result.value = PyList(<<PyStr(<<"a">>), PyStr(<<"a","a">>)>>)

KwSet == <<"s","e","t">>
KwNotSet == <<"n","o","t"," ","s","e","t">>

\* C6: for is, the value "set" in any letter case gives "column is not null and
\* column is not the empty string", the value "not set" gives "column is null
\* or column is the empty string", and on every column value (null, empty,
\* non-empty) exactly one of the two predicates holds.
C6_SetNotSetPartition ==
    LET column == LeafColumn
        setTest == And(IsNotNull(column), Basic("!=", column, PyStr(<<>>)))
        notSetTest == Or(IsNull(column), Basic("==", column, PyStr(<<>>)))
        other(value) == _build_single_criterion(leaf.field, leaf.operator, PyStr(value))
    IN  (LeafBuilt /\ Lower(leaf.operator) = OpIs /\ leaf.value.t = "str") =>
            /\ Lower(leaf.value.v) = KwSet =>
                  /\ leaf_result = setTest
                  /\ \A held \in ColumnValues :
                        Keeps(leaf_result, held) # Keeps(other(KwNotSet), held)
            /\ leaf.value.v = KwNotSet =>
                  /\ leaf_result = notSetTest
                  /\ \A held \in ColumnValues :
                        Keeps(leaf_result, held) # Keeps(other(KwSet), held)

\* C6 witness: is was built on "SET" in upper case, and the test keeps the row
\* with text and drops the row with NULL.
C6_Witness ==
    /\ LeafBuilt
    /\ Lower(leaf.operator) = OpIs
    /\ leaf.value = PyStr(<<"S","E","T">>)
    /\ Keeps(leaf_result, PyStr(<<"a">>))
    /\ ~Keeps(leaf_result, SqlNull)

\* C7: for between, the string "lo,hi" and the two-element list or tuple
\* [lo, hi] both give lo <= column <= hi, the bounds of the string form being
\* without surrounding whitespace.
C7_BetweenInclusive ==
    LET value == leaf.value
        lower == leaf_result.left
        upper == leaf_result.right
        shaped == /\ leaf_result.k = "and"
                  /\ lower.k = "basic" /\ lower.op = ">=" /\ lower.column = LeafColumn
                  /\ upper.k = "basic" /\ upper.op = "<=" /\ upper.column = LeafColumn
    IN  (LeafBuilt /\ Lower(leaf.operator) = OpBetween) =>
            /\ (value.t = "str" /\ Cardinality(CommaPlaces(value.v)) = 1) =>
                  /\ shaped
                  /\ lower.value.t = "str" /\ IsStripped(lower.value.v, Piece(value.v, 1))
                  /\ upper.value.t = "str" /\ IsStripped(upper.value.v, Piece(value.v, 2))
            /\ (value.t \in {"list", "tuple"} /\ Len(value.v) = 2) =>
                  /\ shaped
                  /\ lower.value = value.v[1]
                  /\ upper.value = value.v[2]

\* C7 witness: between was built on a padded "lo,hi" string.
C7_Witness ==
    /\ LeafBuilt
    /\ Lower(leaf.operator) = OpBetween
    /\ leaf.value = PyStr(<<" ","a"," ",","," ","a","a"," ">>)
    /\ leaf_result = And(Basic(">=", LeafColumn, PyStr(<<"a">>)),
                         Basic("<=", LeafColumn, PyStr(<<"a","a">>)))

-----------------------------------------------------------------------------
(* parse_filters_for_complex *)

\* A dict is the sequence of its items [key, value], in insertion order, the
\* keys (character sequences) being distinct.
KeyConditions == <<"_","c","o","n","d","i","t","i","o","n","s">>

\* ParseStep without the branch that skips the other "_" keys
ParseStep_KeepsInternal(acc, item) ==
    IF item.key = KeyConditions
    THEN [acc EXCEPT !.complex = IF item.value.t = "list" THEN item.value ELSE PyNone]
    ELSE [acc EXCEPT !.simple = Append(acc.simple, item)]

\* one turn of `for key, value in filters.items()`
ParseStep(acc, item) ==
    IF item.key = KeyConditions
    THEN [acc EXCEPT !.complex = IF item.value.t = "list" THEN item.value ELSE PyNone]
    ELSE IF StartsWith(item.key, <<"_">>)
    THEN acc
    ELSE [acc EXCEPT !.simple = Append(acc.simple, item)]

\* the loop over the first n items
RECURSIVE ParseLoop(_, _)
ParseLoop(items, n) ==
    IF n = 0 THEN [simple |-> <<>>, complex |-> PyNone]
    ELSE ParseStep(ParseLoop(items, n - 1), items[n])

\* parse_filters_for_complex(filters): the returned pair, and the `filters`
\* object as the call leaves it
parse_filters_for_complex(f) ==
    IF f.t # "dict"
    THEN [simple |-> f, complex |-> PyNone, filters |-> f]
    ELSE LET acc == ParseLoop(f.v, Len(f.v))
         IN  [simple |-> PyDict(acc.simple), complex |-> acc.complex, filters |-> f]

-----------------------------------------------------------------------------
(* Specification of the filter parser: one call on any filters object *)

MaxKeys == 3     \* items in a filters dict, at most

FilterKeys == { KeyConditions, <<"_","a">>, <<"a">>, FldStatus }
FilterValues == { PyStr(<<"O","p","e","n">>), PyList(<<LeafA>>), PyList(<<>>), PyNone }

\* filters that are no dict: None, the list form, a string
OtherFilters == { PyNone, PyList(<<>>), PyList(<<LeafA>>), PyStr(<<"a">>) }

DistinctKeys(items) ==
    \A i, j \in 1..Len(items) : items[i].key = items[j].key => i = j

InitParse ==
    /\ \/ \E n \in 0..MaxKeys :
              \E items \in [1..n -> [key : FilterKeys, value : FilterValues]] :
                  DistinctKeys(items) /\ filters = PyDict(items)
       \/ filters \in OtherFilters
    /\ parsed = Pending
    /\ conditions = Unused /\ criterion = Unused
    /\ leaf = Unused /\ leaf_result = Unused
    /\ settings = Unused /\ api_call = Unused
    /\ last_save = Unused
    /\ hd_settings = Unused
    /\ ticket = Unused
    /\ tag_list = Unused
    /\ ai_call = Unused
    /\ hd_tickets = Unused
    /\ fix_run = Unused

\* simple_filters, complex_conditions = parse_filters_for_complex(filters)
ParseFilters ==
    /\ parsed = Pending
    /\ LET out == parse_filters_for_complex(filters)
       IN  /\ parsed' = [arg |-> filters, simple |-> out.simple, complex |-> out.complex]
           /\ filters' = out.filters
    /\ UNCHANGED <<conditions, criterion, leaf, leaf_result, settings, api_call, last_save, hd_settings, ticket, tag_list, ai_call, hd_tickets, fix_run>>

NextParse == ParseFilters

SpecParse == InitParse /\ [][NextParse]_vars

\* the items of a dict, as a set
ItemSet(d) == { d.v[i] : i \in 1..Len(d.v) }

\* C8: a non-dict is returned unchanged with complex_conditions None; for a
\* dict, complex_conditions is the value of "_conditions" when that is a list
\* and None otherwise, simple_filters holds exactly the items whose key does
\* not start with "_", and the input dict is left as it was.
C8_ParseFilters ==
    parsed # Pending =>
        LET arg == parsed.arg
        IN  /\ filters = arg
            /\ IF arg.t # "dict"
               THEN parsed.simple = arg /\ parsed.complex = PyNone
               ELSE /\ parsed.complex =
                         (IF \E it \in ItemSet(arg) : it.key = KeyConditions /\ it.value.t = "list"
                          THEN (CHOOSE it \in ItemSet(arg) : it.key = KeyConditions).value
                          ELSE PyNone)
                    /\ parsed.simple.t = "dict"
                    /\ DistinctKeys(parsed.simple.v)
                    /\ ItemSet(parsed.simple) = { it \in ItemSet(arg) : it.key[1] # "_" }

\* C8 witness: a dict with "_conditions" (a list), another "_" key and a plain
\* key was parsed, and only the plain key is in simple_filters.
C8_Witness ==
    /\ parsed # Pending
    /\ parsed.arg.t = "dict"
    /\ \E it \in ItemSet(parsed.arg) : it.key = KeyConditions /\ it.value = PyList(<<LeafA>>)
    /\ \E it \in ItemSet(parsed.arg) : it.key = <<"_","a">>
    /\ \E it \in ItemSet(parsed.arg) : it.key = FldStatus
    /\ parsed.complex = PyList(<<LeafA>>)
    /\ Len(parsed.simple.v) = 1 /\ parsed.simple.v[1].key = FldStatus

-----------------------------------------------------------------------------
(* HD External Integration Settings: validate, get_app_config, get_endpoint_config *)

\* the (app_name, action_name) keys / the app names of the rows, in row order
EndpointKeys(doc) == [i \in 1..Len(doc.endpoints) |->
                        <<doc.endpoints[i].app_name, doc.endpoints[i].action_name>>]
AppNamesOf(doc) == [i \in 1..Len(doc.apps) |-> doc.apps[i].app_name]

\* len(xs) != len(set(xs))
HasDuplicates(xs) == Len(xs) # Cardinality({ xs[i] : i \in 1..Len(xs) })

\* a validate_apps that does not compare the app names
validate_apps_NoDuplicateCheck(doc) ==
    IF Len(doc.apps) = 0
    THEN "At least one app must be configured when integration is enabled"
    ELSE IF \E i \in 1..Len(doc.apps) : doc.apps[i].base_url = ""
    THEN "Base URL is required for app: {0}"
    ELSE "ok"

\* validate_apps: "ok", or the message it throws
validate_apps(doc) ==
    IF Len(doc.apps) = 0
    THEN "At least one app must be configured when integration is enabled"
    ELSE IF HasDuplicates(AppNamesOf(doc))
    THEN "Duplicate app names found. Each app name must be unique"
    ELSE IF \E i \in 1..Len(doc.apps) : doc.apps[i].base_url = ""
    THEN "Base URL is required for app: {0}"
    ELSE "ok"

\* validate_endpoints: "ok", or the message it throws
validate_endpoints(doc) ==
    IF Len(doc.endpoints) = 0 THEN "ok"
    ELSE IF HasDuplicates(EndpointKeys(doc))
    THEN "Duplicate app_name + action_name combinations found. Each combination must be unique"
    ELSE IF \E i \in 1..Len(doc.endpoints) :
                \A j \in 1..Len(doc.apps) : doc.apps[j].app_name # doc.endpoints[i].app_name
    THEN "App '{0}' not found for endpoint '{1}'. Please add the app first"
    ELSE "ok"

\* validate: "ok", or the message of the first throw
validate(doc) ==
    IF ~doc.enabled THEN "ok"
    ELSE IF validate_apps(doc) # "ok" THEN validate_apps(doc)
    ELSE validate_endpoints(doc)

\* what the lookups return when no row matches
NoConfig == [found |-> FALSE]

\* a row search that takes the first row of the name, enabled or not
RECURSIVE FirstApp_IgnoresEnabled(_, _, _)
FirstApp_IgnoresEnabled(apps, app_name, i) ==
    IF i > Len(apps) THEN NoConfig
    ELSE IF apps[i].app_name = app_name
    THEN [found |-> TRUE, app_name |-> apps[i].app_name, base_url |-> apps[i].base_url,
          auth_type |-> apps[i].auth_type, api_key |-> apps[i].api_key]
    ELSE FirstApp_IgnoresEnabled(apps, app_name, i + 1)

\* the first row from position i on that satisfies the loop's test
RECURSIVE FirstApp(_, _, _)
FirstApp(apps, app_name, i) ==
    IF i > Len(apps) THEN NoConfig
    ELSE IF apps[i].app_name = app_name /\ apps[i].enabled
    THEN [found |-> TRUE, app_name |-> apps[i].app_name, base_url |-> apps[i].base_url,
          auth_type |-> apps[i].auth_type, api_key |-> apps[i].api_key]
    ELSE FirstApp(apps, app_name, i + 1)

\* get_app_config(app_name), on the stored settings doc
get_app_config(doc, app_name) ==
    IF ~doc.enabled THEN NoConfig ELSE FirstApp(doc.apps, app_name, 1)

RECURSIVE FirstEndpoint(_, _, _, _)
FirstEndpoint(endpoints, app_name, action_name, i) ==
    IF i > Len(endpoints) THEN NoConfig
    ELSE IF /\ endpoints[i].app_name = app_name
            /\ endpoints[i].action_name = action_name
            /\ endpoints[i].enabled
    THEN [found |-> TRUE, endpoint_path |-> endpoints[i].endpoint_path,
          http_method |-> endpoints[i].http_method]
    ELSE FirstEndpoint(endpoints, app_name, action_name, i + 1)

\* get_endpoint_config(app_name, action_name), on the stored settings doc
get_endpoint_config(doc, app_name, action_name) ==
    IF ~doc.enabled THEN NoConfig
    ELSE FirstEndpoint(doc.endpoints, app_name, action_name, 1)

-----------------------------------------------------------------------------
(* call_external_api and _make_http_request *)

\* what the remote server, or the network, does with a request
Responses == {"ok", "transport_error", "http_error_status", "body_not_json"}

SupportedMethods == { <<"G","E","T">>, <<"P","O","S","T">>, <<"P","U","T">>,
                      <<"P","A","T","C","H">>, <<"D","E","L","E","T","E">> }

\* the Authorization headers by auth_type
AuthHeaders(app_config) ==
    CASE app_config.auth_type = "API Key" ->
            [name |-> "X-Proconut-Secret-Key", value |-> <<"", app_config.api_key>>]
      [] app_config.auth_type = "Bearer Token" ->
            [name |-> "Authorization", value |-> <<"Bearer", app_config.api_key>>]
      [] app_config.auth_type = "Basic Auth" ->
            [name |-> "Authorization", value |-> <<"Basic", app_config.api_key>>]
      [] app_config.auth_type = "Auth header" ->
            [name |-> "Authorization", value |-> <<"", app_config.api_key>>]
      [] OTHER -> [name |-> "", value |-> <<"", "">>]

\* a request that skips response.raise_for_status(): the body of an error
\* status is returned as data
_make_http_request_NoRaiseForStatus(app_config, endpoint_config, params, response, json_error) ==
    LET http_method == Upper(endpoint_config.http_method)
        request == [method |-> http_method,
                    url |-> <<app_config.base_url, endpoint_config.endpoint_path>>,
                    auth |-> AuthHeaders(app_config),
                    params |-> params,
                    response |-> response]
    IN  IF params.t # "dict"
        THEN [sent |-> <<>>, raised |-> "AttributeError"]
        ELSE IF http_method \notin SupportedMethods
        THEN [sent |-> <<>>, raised |-> "ValueError"]
        ELSE IF app_config.base_url = ""
        THEN [sent |-> <<>>, raised |-> "RequestException"]
        ELSE IF response = "transport_error"
        THEN [sent |-> <<request>>, raised |-> "RequestException"]
        ELSE IF response = "body_not_json"
        THEN [sent |-> <<request>>, raised |-> json_error]
        ELSE [sent |-> <<request>>, data |-> "response.json()"]

\* _make_http_request(app_config, endpoint_config, params) when the other end
\* answers with `response`: the requests sent (each with its answer), and the
\* value returned ([data |-> ...]) or the exception raised ([raised |-> ...]);
\* json_error is the class of the error response.json() raises in the
\* installed library. The endpoints of the model map no parameter names.
_make_http_request(app_config, endpoint_config, params, response, json_error) ==
    LET http_method == Upper(endpoint_config.http_method)
        request == [method |-> http_method,
                    url |-> <<app_config.base_url, endpoint_config.endpoint_path>>,
                    auth |-> AuthHeaders(app_config),
                    params |-> params,
                    response |-> response]
    IN  IF params.t # "dict"
        THEN [sent |-> <<>>, raised |-> "AttributeError"]
        ELSE IF http_method \notin SupportedMethods
        THEN [sent |-> <<>>, raised |-> "ValueError"]
        ELSE IF app_config.base_url = ""
        THEN [sent |-> <<>>, raised |-> "RequestException"]
        ELSE IF response = "transport_error"
        THEN [sent |-> <<request>>, raised |-> "RequestException"]
        ELSE IF response = "http_error_status"
        THEN [sent |-> <<request>>, raised |-> "RequestException"]
        ELSE IF response = "body_not_json"
        THEN [sent |-> <<request>>, raised |-> json_error]
        ELSE [sent |-> <<request>>, data |-> "response.json()"]

\* json.loads(text) for the request texts of the model
JsonObject == <<"{","}">>
JsonArray == <<"[","1","]">>
JsonBroken == <<"{">>

json_loads(text) ==
    CASE text = JsonObject -> [value |-> PyDict(<<>>)]
      [] text = JsonArray -> [value |-> PyList(<<PyInt(1)>>)]
      [] OTHER -> [raised |-> "JSONDecodeError"]

\* a Python value is falsy: None, an empty str, list or dict
Falsy(x) == x.t = "none" \/ (x.t \in {"str", "list", "dict"} /\ Len(x.v) = 0)

\* call_external_api(app_name, action_name, params) on the stored settings doc:
\* the requests sent, and the dict returned or the exception raised
call_external_api(doc, app_name, action_name, params, response, json_error) ==
    LET loaded == IF params.t = "str" THEN json_loads(params.v) ELSE [value |-> params]
    IN  IF "raised" \in DOMAIN loaded
        THEN [sent |-> <<>>, raised |-> loaded.raised]
        ELSE
        LET args == IF Falsy(loaded.value) THEN PyDict(<<>>) ELSE loaded.value
            app_config == get_app_config(doc, app_name)
            endpoint_config == get_endpoint_config(doc, app_name, action_name)
        IN  IF ~doc.enabled
            THEN [sent |-> <<>>,
                  returned |-> [error |-> <<"External integrations are not enabled">>,
                                enabled |-> FALSE]]
            ELSE IF ~app_config.found
            THEN [sent |-> <<>>,
                  returned |-> [error |-> <<"App '{0}' not found or not enabled", app_name>>]]
            ELSE IF ~endpoint_config.found
            THEN [sent |-> <<>>,
                  returned |-> [error |-> <<"Endpoint '{0}' not found or not enabled for app '{1}'",
                                           action_name, app_name>>]]
            ELSE LET http == _make_http_request(app_config, endpoint_config, args,
                                                response, json_error)
                 IN  IF "data" \in DOMAIN http
                     THEN [sent |-> http.sent,
                           returned |-> [data |-> http.data, success |-> TRUE]]
                     ELSE IF http.raised = "RequestException"
                     THEN [sent |-> http.sent,
                           returned |-> [error |-> <<"Failed to fetch data from {0}: {1}",
                                                    app_name, http.raised>>]]
                     ELSE [sent |-> http.sent,
                           returned |-> [error |-> <<"An error occurred: {0}", http.raised>>]]

-----------------------------------------------------------------------------
(* Specification of the external-API bridge: any stored settings, any calls *)

MaxApps == 2        \* rows of the settings' apps table, at most
MaxEndpoints == 1   \* rows of the settings' endpoints table, at most

AppNames == {"proconut", "tortoise"}
ActionNames == {"get_employee_data", "get_orders"}

AppRows ==
    [app_name : AppNames, enabled : BOOLEAN, base_url : {"https://app"},
     auth_type : {"Bearer Token"}, api_key : {"secret"}]

EndpointRows ==
    [app_name : AppNames, action_name : ActionNames, enabled : BOOLEAN,
     endpoint_path : {"/employees"},
     http_method : { <<"g","e","t">>, <<"T","R","A","C","E">> }]

\* the `params` arguments: None, a dict, JSON text of an object, of an array,
\* and text that is no JSON
ParamInputs ==
    { PyNone,
      PyDict(<<[key |-> <<"s","e","a","r","c","h","_","t","e","x","t">>,
               value |-> PyStr(<<"a">>)]>>),
      PyStr(JsonObject), PyStr(JsonArray), PyStr(JsonBroken) }

\* the class of the error response.json() raises: a RequestException in the
\* newer requests libraries, a plain ValueError in the older ones
JsonErrors == {"RequestException", "ValueError"}

\* The stored document passed validate when it was saved.
InitIntegration ==
    /\ \E on \in BOOLEAN, na \in 0..MaxApps, ne \in 0..MaxEndpoints :
          \E apps \in [1..na -> AppRows], endpoints \in [1..ne -> EndpointRows] :
              LET doc == [enabled |-> on, apps |-> apps, endpoints |-> endpoints]
              IN  validate(doc) = "ok" /\ settings = doc
    /\ api_call = Pending
    /\ conditions = Unused /\ criterion = Unused
    /\ leaf = Unused /\ leaf_result = Unused
    /\ filters = Unused /\ parsed = Unused
    /\ last_save = Unused
    /\ hd_settings = Unused
    /\ ticket = Unused
    /\ tag_list = Unused
    /\ ai_call = Unused
    /\ hd_tickets = Unused
    /\ fix_run = Unused

\* one call of the whitelisted endpoint call_external_api; the call leaves the
\* settings as they are, so every call meets the state a first call meets
CallExternalApi ==
    /\ api_call = Pending
    /\ \E app_name \in AppNames, action_name \in ActionNames, params \in ParamInputs,
          response \in Responses, json_error \in JsonErrors :
          api_call' = [app_name |-> app_name, action_name |-> action_name,
                       params |-> params,
                       out |-> call_external_api(settings, app_name, action_name,
                                                 params, response, json_error)]
    /\ UNCHANGED <<conditions, criterion, leaf, leaf_result, filters, parsed, settings, last_save, hd_settings, ticket, tag_list, ai_call, hd_tickets, fix_run>>

NextIntegration == CallExternalApi

SpecIntegration == InitIntegration /\ [][NextIntegration]_vars

-----------------------------------------------------------------------------
(* Claims about call_external_api *)

Called == api_call # Pending

\* the three configuration checks, read off the stored settings
IntegrationEnabled == settings.enabled
EnabledAppExists ==
    \E i \in 1..Len(settings.apps) :
        settings.apps[i].app_name = api_call.app_name /\ settings.apps[i].enabled
EnabledEndpointExists ==
    \E i \in 1..Len(settings.endpoints) :
        /\ settings.endpoints[i].app_name = api_call.app_name
        /\ settings.endpoints[i].action_name = api_call.action_name
        /\ settings.endpoints[i].enabled

\* the call came to its checks: its params were no undecodable text
ReachedChecks == ~("raised" \in DOMAIN api_call.out)

\* the dict the call returns when check number n is the first to fail
FailedCheck(n) ==
    CASE n = 1 -> [error |-> <<"External integrations are not enabled">>, enabled |-> FALSE]
      [] n = 2 -> [error |-> <<"App '{0}' not found or not enabled", api_call.app_name>>]
      [] n = 3 -> [error |-> <<"Endpoint '{0}' not found or not enabled for app '{1}'",
                              api_call.action_name, api_call.app_name>>]

\* C9: a request is sent only if the integration is enabled, an enabled app of
\* that name exists and an enabled endpoint (app_name, action_name) exists; a
\* call whose check fails returns the error dict of the first failed check, in
\* the order enabled, app, endpoint, and sends nothing.
C9_ChecksGateRequest ==
    Called =>
        /\ api_call.out.sent # <<>> =>
              IntegrationEnabled /\ EnabledAppExists /\ EnabledEndpointExists
        /\ ReachedChecks =>
              /\ ~IntegrationEnabled =>
                    api_call.out.returned = FailedCheck(1) /\ api_call.out.sent = <<>>
              /\ (IntegrationEnabled /\ ~EnabledAppExists) =>
                    api_call.out.returned = FailedCheck(2) /\ api_call.out.sent = <<>>
              /\ (IntegrationEnabled /\ EnabledAppExists /\ ~EnabledEndpointExists) =>
                    api_call.out.returned = FailedCheck(3) /\ api_call.out.sent = <<>>

\* C9 witness: with the integration enabled and the app enabled, a call for an
\* action whose only endpoint row is disabled returned the endpoint error and
\* sent nothing.
C9_Witness ==
    /\ Called /\ ReachedChecks
    /\ IntegrationEnabled /\ EnabledAppExists /\ ~EnabledEndpointExists
    /\ \E i \in 1..Len(settings.endpoints) :
          /\ settings.endpoints[i].app_name = api_call.app_name
          /\ settings.endpoints[i].action_name = api_call.action_name
    /\ api_call.out.returned = FailedCheck(3)
    /\ api_call.out.sent = <<>>

-----------------------------------------------------------------------------
(* Specification of the settings document: any sequence of saves *)

MaxRows == 2   \* rows of each child table of a document handed to save, at most

\* the rows a user can enter: an app with or without its base URL, an endpoint
\* of either app
EnteredAppRows ==
    [app_name : AppNames, enabled : {TRUE}, base_url : {"", "https://app"},
     auth_type : {"Bearer Token"}, api_key : {"secret"}]

EnteredEndpointRows ==
    [app_name : AppNames, action_name : {"get_employee_data"}, enabled : {TRUE},
     endpoint_path : {"/employees"}, http_method : { <<"G","E","T">> }]

\* the single document as installed: disabled, both tables empty
InitSettings ==
    /\ settings = [enabled |-> FALSE, apps |-> <<>>, endpoints |-> <<>>]
    /\ last_save = Pending
    /\ conditions = Unused /\ criterion = Unused
    /\ leaf = Unused /\ leaf_result = Unused
    /\ filters = Unused /\ parsed = Unused
    /\ api_call = Unused
    /\ hd_settings = Unused
    /\ ticket = Unused
    /\ tag_list = Unused
    /\ ai_call = Unused
    /\ hd_tickets = Unused
    /\ fix_run = Unused

\* doc.save(): validate runs, and the document is stored unless it throws
SaveSettings ==
    /\ \E on \in BOOLEAN, na \in 0..MaxRows, ne \in 0..MaxRows :
          \E apps \in [1..na -> EnteredAppRows], endpoints \in [1..ne -> EnteredEndpointRows] :
              LET doc == [enabled |-> on, apps |-> apps, endpoints |-> endpoints]
              IN  /\ last_save' = [result |-> validate(doc)]
                  /\ settings' = IF validate(doc) = "ok" THEN doc ELSE settings
    /\ UNCHANGED <<conditions, criterion, leaf, leaf_result, filters, parsed, api_call, hd_settings, ticket, tag_list, ai_call, hd_tickets, fix_run>>

NextSettings == SaveSettings

SpecSettings == InitSettings /\ [][NextSettings]_vars

-----------------------------------------------------------------------------
(* Claim about validate *)

\* the five properties of the tables, stated on the rows
AtLeastOneApp(doc) == Len(doc.apps) >= 1
DistinctAppNames(doc) ==
    \A i, j \in 1..Len(doc.apps) :
        i # j => doc.apps[i].app_name # doc.apps[j].app_name
EveryAppHasBaseUrl(doc) == \A i \in 1..Len(doc.apps) : doc.apps[i].base_url # ""
DistinctEndpointKeys(doc) ==
    \A i, j \in 1..Len(doc.endpoints) :
        i # j => \/ doc.endpoints[i].app_name # doc.endpoints[j].app_name
                 \/ doc.endpoints[i].action_name # doc.endpoints[j].action_name
EndpointAppsExist(doc) ==
    \A i \in 1..Len(doc.endpoints) :
        \E j \in 1..Len(doc.apps) : doc.apps[j].app_name = doc.endpoints[i].app_name

\* the rows the lookups' loops match
MatchingApps(doc, app_name) ==
    { i \in 1..Len(doc.apps) : doc.apps[i].app_name = app_name /\ doc.apps[i].enabled }
MatchingEndpoints(doc, app_name, action_name) ==
    { i \in 1..Len(doc.endpoints) :
        /\ doc.endpoints[i].app_name = app_name
        /\ doc.endpoints[i].action_name = action_name
        /\ doc.endpoints[i].enabled }

\* C11: after any sequence of saves, a stored document with enabled set has at
\* least one app, pairwise distinct app names, a base URL on every app,
\* pairwise distinct (app_name, action_name) endpoint keys and every
\* endpoint's app in the apps table; get_app_config and get_endpoint_config
\* then match at most one row.
C11_ValidatedSettings ==
    settings.enabled =>
        /\ AtLeastOneApp(settings)
        /\ DistinctAppNames(settings)
        /\ EveryAppHasBaseUrl(settings)
        /\ DistinctEndpointKeys(settings)
        /\ EndpointAppsExist(settings)
        /\ \A app_name \in AppNames :
              /\ Cardinality(MatchingApps(settings, app_name)) <= 1
              /\ \A action_name \in ActionNames :
                    Cardinality(MatchingEndpoints(settings, app_name, action_name)) <= 1

\* C11 witness: an enabled document with two apps and two endpoints is stored,
\* and the save that came after it was rejected by validate.
C11_Witness ==
    /\ settings.enabled
    /\ Len(settings.apps) = 2 /\ Len(settings.endpoints) = 2
    /\ last_save # Pending /\ last_save.result # "ok"
    /\ get_app_config(settings, "proconut").found
    /\ get_endpoint_config(settings, "tortoise", "get_employee_data").found

-----------------------------------------------------------------------------
(* helpdesk/api/ai.py: settings, the LLM call, the two core functions *)

\* _get_ai_settings() returns None
NoAISettings == [k |-> "None"]

\* a lookup of the settings that does not test enable_ai_summary
_get_ai_settings_AlwaysOn(hs) ==
    [k |-> "dict", enabled |-> hs.enable_ai_summary,
     enable_tag_annotation |-> hs.enable_ai_tag_annotation,
     provider |-> "OpenAI", openai_api_key |-> hs.openai_api_key]

\* _get_ai_settings() on the HD Settings document hs
_get_ai_settings(hs) ==
    IF ~hs.enable_ai_summary THEN NoAISettings
    ELSE [k |-> "dict", enabled |-> hs.enable_ai_summary,
          enable_tag_annotation |-> hs.enable_ai_tag_annotation,
          provider |-> "OpenAI", openai_api_key |-> hs.openai_api_key]

\* `not settings`
NotSettings(s) == s.k = "None"

\* the one ticket of the database; any other id names no ticket
TicketId == "HD-1"
Exists(ticket_id) == ticket_id = TicketId

\* _get_ticket_context(ticket_id, prefer_summary): which context the prompt is
\* built from, or the error frappe.get_doc raises for an unknown id
_get_ticket_context(ticket_id, t, prefer_summary) ==
    IF ~Exists(ticket_id) THEN [raised |-> "DoesNotExistError"]
    ELSE IF prefer_summary /\ t.summary # "" THEN [context |-> "summary"]
    ELSE [context |-> "full"]

\* the reply of a call that got none
NoReply == [kind |-> "none"]

\* _call_llm(settings, system_prompt, user_content) when the API answers with
\* `answer`: the record of the call (was a request made, with which prompts)
\* and the text returned or the error raised. _get_ai_client throws before any
\* request when the key is missing.
_call_llm(s, system_prompt, user_content, answer) ==
    IF s.openai_api_key = ""
    THEN [call |-> [system_prompt |-> system_prompt, user_content |-> user_content,
                    requested |-> FALSE, reply |-> NoReply],
          raised |-> "ValidationError"]
    ELSE IF answer.kind = "error"
    THEN [call |-> [system_prompt |-> system_prompt, user_content |-> user_content,
                    requested |-> TRUE, reply |-> NoReply],
          raised |-> "APIError"]
    ELSE [call |-> [system_prompt |-> system_prompt, user_content |-> user_content,
                    requested |-> TRUE, reply |-> answer],
          text |-> answer]

\* _parse_json_response(response): the parsed value, or json.loads' error
_parse_json_response(response) ==
    IF response.kind = "not_json" THEN [raised |-> "JSONDecodeError"]
    ELSE IF response.kind = "json_list" THEN [value |-> PyList(response.list)]
    ELSE [value |-> PyDict(<<>>)]

\* _generate_summary_for_ticket(ticket_id, settings)
_generate_summary_for_ticket(ticket_id, t, s, answer) ==
    LET context == _get_ticket_context(ticket_id, t, FALSE)
    IN  IF "raised" \in DOMAIN context
        THEN [llm |-> <<>>, raised |-> context.raised]
        ELSE LET llm == _call_llm(s, "prompt_template", context.context, answer)
             IN  IF "raised" \in DOMAIN llm
                 THEN [llm |-> <<llm.call>>, raised |-> llm.raised]
                 ELSE [llm |-> <<llm.call>>, summary |-> llm.text.text]

\* a filter that keeps every suggested tag
ValidTags_Unfiltered(suggested_tags, available_tags) ==
    suggested_tags

\* valid_tags = [tag for tag in suggested_tags if tag in available_tags]
ValidTags(suggested_tags, available_tags) ==
    SelectSeq(suggested_tags,
              LAMBDA tag : \E i \in 1..Len(available_tags) : available_tags[i] = tag)

\* the values of a list
Elements(xs) == { xs[i] : i \in 1..Len(xs) }

\* _annotate_tags_for_ticket(ticket_id, settings): the ticket afterwards, the
\* LLM calls and add_tag calls made, and the dict returned or the error raised
_annotate_tags_for_ticket(ticket_id, t, available_tags, s, answer) ==
    IF Len(available_tags) = 0
    THEN [ticket |-> t, llm |-> <<>>, added |-> <<>>,
          returned |-> [tags_added |-> <<>>, tags_already_present |-> <<>>,
                        all_suggested |-> <<>>, no_tags_available |-> TRUE]]
    ELSE
    LET context == _get_ticket_context(ticket_id, t, TRUE)
    IN  IF "raised" \in DOMAIN context
        THEN [ticket |-> t, llm |-> <<>>, added |-> <<>>, raised |-> context.raised]
        ELSE
        LET llm == _call_llm(s, "tag_annotation_prompt", context.context, answer)
        IN  IF "raised" \in DOMAIN llm
            THEN [ticket |-> t, llm |-> <<llm.call>>, added |-> <<>>, raised |-> llm.raised]
            ELSE
            LET parsed_response == _parse_json_response(llm.text)
            IN  IF "raised" \in DOMAIN parsed_response
                THEN [ticket |-> t, llm |-> <<llm.call>>, added |-> <<>>,
                      raised |-> parsed_response.raised]
                ELSE
                LET suggested_tags == IF parsed_response.value.t = "list"
                                      THEN parsed_response.value.v ELSE <<>>
                    valid_tags == ValidTags(suggested_tags, available_tags)
                    existing_tags == t.tags
                    tags_added == SelectSeq(valid_tags, LAMBDA tag : tag \notin existing_tags)
                IN  [ticket |-> [t EXCEPT !.tags = @ \cup Elements(tags_added)],
                     llm |-> <<llm.call>>,
                     added |-> tags_added,
                     returned |-> [tags_added |-> tags_added,
                                   tags_already_present |->
                                       SelectSeq(valid_tags, LAMBDA tag : tag \in existing_tags),
                                   all_suggested |-> valid_tags]]

-----------------------------------------------------------------------------
(* helpdesk/api/ai.py: the entry points.  Each gives the ticket afterwards,  *)
(* the _call_llm calls, the database writes, the add_tag calls and the       *)
(* frappe.log_error titles it made, and the value returned or error raised.  *)

\* no result of _annotate_tags_for_ticket: it did not run, or it raised
NoAnnotation == [k |-> "None"]

\* a generate_ticket_summary whose cache check does not look at force
generate_ticket_summary_IgnoresForce(hs, ticket_id, t, force, answer) ==
    LET s == _get_ai_settings(hs)
    IN  IF NotSettings(s)
        THEN [ticket |-> t, llm |-> <<>>, writes |-> <<>>, added |-> <<>>, logged |-> <<>>,
              steps |-> <<>>, annotation |-> NoAnnotation,
              out |-> [returned |-> [success |-> FALSE,
                                     message |-> "AI Summary is not enabled in settings"]]]
        ELSE IF ~Exists(ticket_id)
        THEN [ticket |-> t, llm |-> <<>>, writes |-> <<>>, added |-> <<>>, logged |-> <<>>,
              steps |-> <<>>, annotation |-> NoAnnotation,
              out |-> [raised |-> "DoesNotExistError"]]
        ELSE IF t.summary # ""
        THEN [ticket |-> t, llm |-> <<>>, writes |-> <<>>, added |-> <<>>, logged |-> <<>>,
              steps |-> <<>>, annotation |-> NoAnnotation,
              out |-> [returned |-> [success |-> TRUE, summary |-> t.summary, cached |-> TRUE]]]
        ELSE LET g == _generate_summary_for_ticket(ticket_id, t, s, answer)
             IN  IF "raised" \in DOMAIN g
                 THEN [ticket |-> t, llm |-> g.llm, writes |-> <<>>, added |-> <<>>,
                       logged |-> <<"AI Summary Generation Failed">>,
                       steps |-> <<>>, annotation |-> NoAnnotation,
                       out |-> [returned |-> [success |-> FALSE, message |-> g.raised]]]
                 ELSE [ticket |-> [t EXCEPT !.summary = g.summary], llm |-> g.llm,
                       writes |-> <<[op |-> "set_value", field |-> "summary", value |-> g.summary],
                                  [op |-> "commit", field |-> "", value |-> ""]>>,
                       added |-> <<>>, logged |-> <<>>,
                       steps |-> <<>>, annotation |-> NoAnnotation,
                       out |-> [returned |-> [success |-> TRUE, summary |-> g.summary,
                                              cached |-> FALSE]]]

\* generate_ticket_summary(ticket_id, force)
generate_ticket_summary(hs, ticket_id, t, force, answer) ==
    LET s == _get_ai_settings(hs)
    IN  IF NotSettings(s)
        THEN [ticket |-> t, llm |-> <<>>, writes |-> <<>>, added |-> <<>>, logged |-> <<>>,
              steps |-> <<>>, annotation |-> NoAnnotation,
              out |-> [returned |-> [success |-> FALSE,
                                     message |-> "AI Summary is not enabled in settings"]]]
        ELSE IF ~Exists(ticket_id)
        THEN [ticket |-> t, llm |-> <<>>, writes |-> <<>>, added |-> <<>>, logged |-> <<>>,
              steps |-> <<>>, annotation |-> NoAnnotation,
              out |-> [raised |-> "DoesNotExistError"]]
        ELSE IF ~force /\ t.summary # ""
        THEN [ticket |-> t, llm |-> <<>>, writes |-> <<>>, added |-> <<>>, logged |-> <<>>,
              steps |-> <<>>, annotation |-> NoAnnotation,
              out |-> [returned |-> [success |-> TRUE, summary |-> t.summary, cached |-> TRUE]]]
        ELSE LET g == _generate_summary_for_ticket(ticket_id, t, s, answer)
             IN  IF "raised" \in DOMAIN g
                 THEN [ticket |-> t, llm |-> g.llm, writes |-> <<>>, added |-> <<>>,
                       logged |-> <<"AI Summary Generation Failed">>,
                       steps |-> <<>>, annotation |-> NoAnnotation,
                       out |-> [returned |-> [success |-> FALSE, message |-> g.raised]]]
                 ELSE [ticket |-> [t EXCEPT !.summary = g.summary], llm |-> g.llm,
                       writes |-> <<[op |-> "set_value", field |-> "summary", value |-> g.summary],
                                  [op |-> "commit", field |-> "", value |-> ""]>>,
                       added |-> <<>>, logged |-> <<>>,
                       steps |-> <<>>, annotation |-> NoAnnotation,
                       out |-> [returned |-> [success |-> TRUE, summary |-> g.summary,
                                              cached |-> FALSE]]]

\* annotate_tags(ticket_id)
annotate_tags(hs, ticket_id, t, available_tags, answer) ==
    LET s == _get_ai_settings(hs)
    IN  IF NotSettings(s)
        THEN [ticket |-> t, llm |-> <<>>, writes |-> <<>>, added |-> <<>>, logged |-> <<>>,
              steps |-> <<>>, annotation |-> NoAnnotation,
              out |-> [returned |-> [success |-> FALSE,
                                     message |-> "AI is not enabled in settings"]]]
        ELSE IF ~Exists(ticket_id)
        THEN [ticket |-> t, llm |-> <<>>, writes |-> <<>>, added |-> <<>>, logged |-> <<>>,
              steps |-> <<>>, annotation |-> NoAnnotation,
              out |-> [raised |-> "DoesNotExistError"]]
        ELSE LET a == _annotate_tags_for_ticket(ticket_id, t, available_tags, s, answer)
             IN  IF "raised" \in DOMAIN a
                 THEN IF a.raised = "JSONDecodeError"
                      THEN [ticket |-> a.ticket, llm |-> a.llm, writes |-> <<>>,
                            added |-> a.added,
                            logged |-> <<"AI Tag Annotation Parse Error">>,
                            steps |-> <<>>, annotation |-> NoAnnotation,
                            out |-> [returned |-> [success |-> FALSE,
                                                   message |-> "Failed to parse AI response"]]]
                      ELSE [ticket |-> a.ticket, llm |-> a.llm, writes |-> <<>>,
                            added |-> a.added,
                            logged |-> <<"AI Tag Annotation Failed">>,
                            steps |-> <<>>, annotation |-> NoAnnotation,
                            out |-> [returned |-> [success |-> FALSE, message |-> a.raised]]]
                 ELSE IF "no_tags_available" \in DOMAIN a.returned
                 THEN [ticket |-> a.ticket, llm |-> a.llm, writes |-> <<>>, added |-> a.added,
                       logged |-> <<>>, steps |-> <<>>, annotation |-> a.returned,
                       out |-> [returned |->
                                   [success |-> FALSE,
                                    message |-> "No tags available. Please create some tags first."]]]
                 ELSE IF a.returned.tags_added = <<>> /\ a.returned.tags_already_present = <<>>
                 THEN [ticket |-> a.ticket, llm |-> a.llm, writes |-> <<>>, added |-> a.added,
                       logged |-> <<>>, steps |-> <<>>, annotation |-> a.returned,
                       out |-> [returned |-> [success |-> TRUE,
                                              message |-> "No relevant tags found",
                                              tags_added |-> <<>>,
                                              all_suggested |-> a.returned.all_suggested]]]
                 ELSE [ticket |-> a.ticket, llm |-> a.llm, writes |-> <<>>, added |-> a.added,
                       logged |-> <<>>, steps |-> <<>>, annotation |-> a.returned,
                       out |-> [returned |->
                                   [success |-> TRUE,
                                    tags_added |-> a.returned.tags_added,
                                    tags_already_present |-> a.returned.tags_already_present,
                                    all_suggested |-> a.returned.all_suggested]]]

\* a summary hook without its try/except
on_ticket_update_generate_summary_Propagates(hs, ticket_id, t, answer) ==
    LET s == _get_ai_settings(hs)
    IN  IF NotSettings(s) \/ ~s.enabled
        THEN [ticket |-> t, llm |-> <<>>, writes |-> <<>>, added |-> <<>>, logged |-> <<>>,
              steps |-> <<[hook |-> "summary", attempted |-> FALSE, failed |-> FALSE]>>,
              annotation |-> NoAnnotation, out |-> [returned |-> PyNone]]
        ELSE LET g == _generate_summary_for_ticket(ticket_id, t, s, answer)
             IN  IF "raised" \in DOMAIN g
                 THEN [ticket |-> t, llm |-> g.llm, writes |-> <<>>, added |-> <<>>,
                       logged |-> <<>>,
                       steps |-> <<[hook |-> "summary", attempted |-> TRUE, failed |-> TRUE]>>,
                       annotation |-> NoAnnotation, out |-> [raised |-> g.raised]]
                 ELSE [ticket |-> [t EXCEPT !.summary = g.summary], llm |-> g.llm,
                       writes |-> <<[op |-> "set_value", field |-> "summary", value |-> g.summary],
                                  [op |-> "commit", field |-> "", value |-> ""]>>,
                       added |-> <<>>, logged |-> <<>>,
                       steps |-> <<[hook |-> "summary", attempted |-> TRUE, failed |-> FALSE]>>,
                       annotation |-> NoAnnotation, out |-> [returned |-> PyNone]]

\* on_ticket_update_generate_summary(ticket_id)
on_ticket_update_generate_summary(hs, ticket_id, t, answer) ==
    LET s == _get_ai_settings(hs)
    IN  IF NotSettings(s) \/ ~s.enabled
        THEN [ticket |-> t, llm |-> <<>>, writes |-> <<>>, added |-> <<>>, logged |-> <<>>,
              steps |-> <<[hook |-> "summary", attempted |-> FALSE, failed |-> FALSE]>>,
              annotation |-> NoAnnotation, out |-> [returned |-> PyNone]]
        ELSE LET g == _generate_summary_for_ticket(ticket_id, t, s, answer)
             IN  IF "raised" \in DOMAIN g
                 THEN [ticket |-> t, llm |-> g.llm, writes |-> <<>>, added |-> <<>>,
                       logged |-> <<"AI Summary Generation Failed">>,
                       steps |-> <<[hook |-> "summary", attempted |-> TRUE, failed |-> TRUE]>>,
                       annotation |-> NoAnnotation, out |-> [returned |-> PyNone]]
                 ELSE [ticket |-> [t EXCEPT !.summary = g.summary], llm |-> g.llm,
                       writes |-> <<[op |-> "set_value", field |-> "summary", value |-> g.summary],
                                  [op |-> "commit", field |-> "", value |-> ""]>>,
                       added |-> <<>>, logged |-> <<>>,
                       steps |-> <<[hook |-> "summary", attempted |-> TRUE, failed |-> FALSE]>>,
                       annotation |-> NoAnnotation, out |-> [returned |-> PyNone]]

\* on_ticket_update_annotate_tags(ticket_id)
on_ticket_update_annotate_tags(hs, ticket_id, t, available_tags, answer) ==
    LET s == _get_ai_settings(hs)
    IN  IF NotSettings(s) \/ ~s.enable_tag_annotation
        THEN [ticket |-> t, llm |-> <<>>, writes |-> <<>>, added |-> <<>>, logged |-> <<>>,
              steps |-> <<[hook |-> "tags", attempted |-> FALSE, failed |-> FALSE]>>,
              annotation |-> NoAnnotation, out |-> [returned |-> PyNone]]
        ELSE LET a == _annotate_tags_for_ticket(ticket_id, t, available_tags, s, answer)
             IN  IF "raised" \in DOMAIN a
                 THEN [ticket |-> a.ticket, llm |-> a.llm, writes |-> <<>>, added |-> a.added,
                       logged |-> <<"AI Tag Annotation Failed">>,
                       steps |-> <<[hook |-> "tags", attempted |-> TRUE, failed |-> TRUE]>>,
                       annotation |-> NoAnnotation, out |-> [returned |-> PyNone]]
                 ELSE [ticket |-> a.ticket, llm |-> a.llm, writes |-> <<>>, added |-> a.added,
                       logged |-> <<>>,
                       steps |-> <<[hook |-> "tags", attempted |-> TRUE, failed |-> FALSE]>>,
                       annotation |-> a.returned, out |-> [returned |-> PyNone]]

\* process_ticket_with_ai(ticket_id): the two hooks one after the other; an
\* error that leaves the first ends the call
process_ticket_with_ai(hs, ticket_id, t, available_tags, summary_answer, tag_answer) ==
    LET first == on_ticket_update_generate_summary(hs, ticket_id, t, summary_answer)
    IN  IF "raised" \in DOMAIN first.out THEN first
        ELSE LET second == on_ticket_update_annotate_tags(hs, ticket_id, first.ticket,
                                                          available_tags, tag_answer)
             IN  [ticket |-> second.ticket,
                  llm |-> first.llm \o second.llm,
                  writes |-> first.writes \o second.writes,
                  added |-> first.added \o second.added,
                  logged |-> first.logged \o second.logged,
                  steps |-> first.steps \o second.steps,
                  annotation |-> second.annotation,
                  out |-> second.out]

-----------------------------------------------------------------------------
(* Specification of the AI entry points: any settings, any sequence of calls *)

MaxSuggested == 2   \* tags in one answer of the LLM, at most

TicketIds == {TicketId, "HD-404"}
SuggestedTags == {"billing", "urgent", "refund"}
TagLists == { <<>>, <<"billing", "urgent">> }
Summaries == {"S1", "S2"}

\* what the LLM API does with a summary request, and with a tagging request
SummaryAnswers ==
    [kind : {"text"}, text : Summaries] \cup {[kind |-> "error", text |-> ""]}
OtherTagAnswers ==
    [kind : {"error", "not_json", "json_object"}, list : {<<>>}]

TagAnswers ==
    OtherTagAnswers \cup
    { [kind |-> "json_list", list |-> list] :
        list \in UNION { [1..n -> SuggestedTags] : n \in 0..MaxSuggested } }

HDSettings ==
    [enable_ai_summary : BOOLEAN, enable_ai_tag_annotation : BOOLEAN,
     openai_api_key : {"", "sk-key"}]

\* a site as installed: AI off, a ticket without summary
InitAI ==
    /\ hd_settings = [enable_ai_summary |-> FALSE, enable_ai_tag_annotation |-> FALSE,
                      openai_api_key |-> ""]
    /\ tag_list \in TagLists
    /\ \E tags \in SUBSET Elements(tag_list) : ticket = [summary |-> "", tags |-> tags]
    /\ ai_call = Pending
    /\ conditions = Unused /\ criterion = Unused
    /\ leaf = Unused /\ leaf_result = Unused
    /\ filters = Unused /\ parsed = Unused
    /\ settings = Unused /\ api_call = Unused
    /\ last_save = Unused
    /\ hd_tickets = Unused
    /\ fix_run = Unused

\* the rest of the state
NotAI == <<conditions, criterion, leaf, leaf_result, filters, parsed, settings,
           api_call, last_save>>

\* an administrator saves HD Settings
SaveHDSettings ==
    /\ \E hs \in HDSettings : hs # hd_settings /\ hd_settings' = hs
    /\ ai_call' = Pending
    /\ UNCHANGED <<ticket, tag_list, NotAI, hd_tickets, fix_run>>

\* the record of an entry point's run
Ran(entry, ticket_id, force, effect) ==
    [entry |-> entry, ticket_id |-> ticket_id, force |-> force, before |-> ticket,
     llm |-> effect.llm, writes |-> effect.writes, added |-> effect.added,
     logged |-> effect.logged, steps |-> effect.steps,
     annotation |-> effect.annotation, out |-> effect.out]

GenerateTicketSummary ==
    /\ \E ticket_id \in TicketIds, force \in BOOLEAN, answer \in SummaryAnswers :
          \E effect \in {generate_ticket_summary(hd_settings, ticket_id, ticket, force, answer)} :
              /\ ticket' = effect.ticket
              /\ ai_call' = Ran("generate_ticket_summary", ticket_id, force, effect)
    /\ UNCHANGED <<hd_settings, tag_list, NotAI, hd_tickets, fix_run>>

AnnotateTags ==
    /\ \E ticket_id \in TicketIds, answer \in TagAnswers :
              \E effect \in {annotate_tags(hd_settings, ticket_id, ticket, tag_list, answer)} :
                  /\ ticket' = effect.ticket
                  /\ ai_call' = Ran("annotate_tags", ticket_id, FALSE, effect)
    /\ UNCHANGED <<hd_settings, tag_list, NotAI, hd_tickets, fix_run>>

OnTicketUpdateGenerateSummary ==
    /\ \E ticket_id \in TicketIds, answer \in SummaryAnswers :
          \E effect \in {on_ticket_update_generate_summary(hd_settings, ticket_id, ticket, answer)} :
              /\ ticket' = effect.ticket
              /\ ai_call' = Ran("on_ticket_update_generate_summary", ticket_id, FALSE, effect)
    /\ UNCHANGED <<hd_settings, tag_list, NotAI, hd_tickets, fix_run>>

OnTicketUpdateAnnotateTags ==
    /\ \E ticket_id \in TicketIds, answer \in TagAnswers :
              \E effect \in {on_ticket_update_annotate_tags(hd_settings, ticket_id, ticket,
                                                           tag_list, answer)} :
                  /\ ticket' = effect.ticket
                  /\ ai_call' = Ran("on_ticket_update_annotate_tags", ticket_id, FALSE, effect)
    /\ UNCHANGED <<hd_settings, tag_list, NotAI, hd_tickets, fix_run>>

ProcessTicketWithAI ==
    /\ \E ticket_id \in TicketIds, summary_answer \in SummaryAnswers,
          tag_answer \in TagAnswers :
              \E effect \in {process_ticket_with_ai(hd_settings, ticket_id, ticket, tag_list,
                                                   summary_answer, tag_answer)} :
                  /\ ticket' = effect.ticket
                  /\ ai_call' = Ran("process_ticket_with_ai", ticket_id, FALSE, effect)
    /\ UNCHANGED <<hd_settings, tag_list, NotAI, hd_tickets, fix_run>>

NextAI ==
    \/ SaveHDSettings
    \/ GenerateTicketSummary
    \/ AnnotateTags
    \/ OnTicketUpdateGenerateSummary
    \/ OnTicketUpdateAnnotateTags
    \/ ProcessTicketWithAI

SpecAI == InitAI /\ [][NextAI]_vars

-----------------------------------------------------------------------------
(* Claims about the AI entry points *)

\* the latest operation was a run of the entry point
AICalled(entry) == ai_call # Pending /\ ai_call.entry = entry

\* the run met an existing ticket with AI enabled
OnTicketWithAI == hd_settings.enable_ai_summary /\ Exists(ai_call.ticket_id)

\* C12: with AI enabled and the ticket existing, generate_ticket_summary with
\* force false on a ticket with a non-empty stored summary returns that summary
\* with cached True and neither calls the LLM nor writes; with force true, or
\* with no stored summary, it calls the LLM once, and when the LLM answers it
\* stores the answer on the ticket and returns it with cached False.
C12_SummaryCache ==
    (AICalled("generate_ticket_summary") /\ OnTicketWithAI) =>
        LET c == ai_call IN
        IF ~c.force /\ c.before.summary # ""
        THEN /\ c.out = [returned |-> [success |-> TRUE, summary |-> c.before.summary,
                                       cached |-> TRUE]]
             /\ c.llm = <<>> /\ c.writes = <<>>
             /\ ticket = c.before
        ELSE /\ Len(c.llm) = 1
             /\ c.llm[1].requested <=> hd_settings.openai_api_key # ""
             /\ IF c.llm[1].reply.kind = "text"
                THEN /\ c.out = [returned |-> [success |-> TRUE,
                                               summary |-> c.llm[1].reply.text,
                                               cached |-> FALSE]]
                     /\ ticket = [c.before EXCEPT !.summary = c.llm[1].reply.text]
                     /\ c.writes # <<>>
                ELSE /\ ~c.out.returned.success
                     /\ ticket = c.before /\ c.writes = <<>>

\* C12 witness: a call with force false on a ticket that had a summary returned
\* it as cached.
C12_Witness ==
    /\ AICalled("generate_ticket_summary") /\ OnTicketWithAI
    /\ ~ai_call.force /\ ai_call.before.summary = "S1"
    /\ ai_call.out.returned.cached
    /\ ai_call.llm = <<>>

\* C12, second case reached: a forced call replaced the stored summary.
C12_ForcedReached ==
    /\ AICalled("generate_ticket_summary") /\ OnTicketWithAI
    /\ ai_call.force /\ ai_call.before.summary = "S1" /\ ticket.summary = "S2"

\* C13: while enable_ai_summary is off, a step of any entry point makes no
\* _call_llm call, no database write and no add_tag call, and leaves the
\* ticket's summary and tags as they were.
C13_OffMeansNoAI ==
    [][ ~hd_settings.enable_ai_summary =>
            /\ ticket' = ticket
            /\ ai_call' # Pending =>
                  /\ ai_call'.llm = <<>>
                  /\ ai_call'.writes = <<>>
                  /\ ai_call'.added = <<>> ]_vars

\* C13 witness: AI was on and a summary was stored, AI was switched off, and
\* process_ticket_with_ai then ran on the ticket without calling the LLM.
C13_Witness ==
    /\ ~hd_settings.enable_ai_summary
    /\ AICalled("process_ticket_with_ai") /\ Exists(ai_call.ticket_id)
    /\ ticket.summary # "" /\ ticket = ai_call.before
    /\ ai_call.llm = <<>>

\* the tags the LLM suggested in the run: the list of its tagging reply
Suggested ==
    IF ai_call.llm # <<>> /\ ai_call.llm[Len(ai_call.llm)].reply.kind = "json_list"
    THEN Elements(ai_call.llm[Len(ai_call.llm)].reply.list)
    ELSE {}

\* C14: the tags a run adds are suggested by the LLM and available for HD
\* Ticket, and none of them was on the ticket when the run began; in the dict
\* _annotate_tags_for_ticket returns, tags_added and tags_already_present are
\* disjoint and both lie within all_suggested.
C14_TagsAdded ==
    ai_call # Pending =>
        /\ Elements(ai_call.added) \subseteq (Suggested \cap Elements(tag_list))
        /\ Elements(ai_call.added) \cap ai_call.before.tags = {}
        /\ ticket.tags = ai_call.before.tags \cup Elements(ai_call.added)
        /\ ai_call.annotation # NoAnnotation =>
              /\ ai_call.added = ai_call.annotation.tags_added
              /\ Elements(ai_call.annotation.tags_added)
                    \cap Elements(ai_call.annotation.tags_already_present) = {}
              /\ Elements(ai_call.annotation.tags_added)
                    \subseteq Elements(ai_call.annotation.all_suggested)
              /\ Elements(ai_call.annotation.tags_already_present)
                    \subseteq Elements(ai_call.annotation.all_suggested)

\* C14 witness: the LLM suggested a tag the ticket had and a tag it had not;
\* annotate_tags added the second only.
C14_Witness ==
    /\ AICalled("annotate_tags")
    /\ Suggested = {"billing", "urgent"}
    /\ ai_call.before.tags = {"billing"}
    /\ ai_call.annotation # NoAnnotation
    /\ ai_call.annotation.tags_added = <<"urgent">>
    /\ ai_call.annotation.tags_already_present = <<"billing">>
    /\ ticket.tags = {"billing", "urgent"}

\* C14, the filter at work: the LLM suggested a tag that is not available and
\* one that is; only the available one was added.
C14_UnavailableReached ==
    /\ AICalled("annotate_tags")
    /\ Suggested = {"refund", "urgent"}
    /\ ai_call.added = <<"urgent">>
    /\ ticket.tags = ai_call.before.tags \cup {"urgent"}

\* the steps of a run that failed
FailedSteps == { i \in 1..Len(ai_call.steps) : ai_call.steps[i].failed }

\* C15: process_ticket_with_ai runs the summary hook and then the tag hook;
\* it raises nothing, every step that failed left one entry in the error log,
\* and the tag step is attempted whenever tag annotation is enabled, also
\* after a summary step that failed.
C15_ProcessBothSteps ==
    AICalled("process_ticket_with_ai") =>
        /\ ai_call.out = [returned |-> PyNone]
        /\ Len(ai_call.steps) = 2
        /\ ai_call.steps[1].hook = "summary" /\ ai_call.steps[2].hook = "tags"
        /\ Len(ai_call.logged) = Cardinality(FailedSteps)
        /\ ai_call.steps[1].attempted <=> hd_settings.enable_ai_summary
        /\ ai_call.steps[2].attempted <=>
              (hd_settings.enable_ai_summary /\ hd_settings.enable_ai_tag_annotation)
        /\ (ai_call.steps[1].failed /\ hd_settings.enable_ai_tag_annotation) =>
              ai_call.steps[2].attempted

\* C15 witness: the summary step failed and was logged, and the tag step of
\* the same run still added a tag.
C15_Witness ==
    /\ AICalled("process_ticket_with_ai")
    /\ ai_call.steps[1].failed
    /\ ai_call.steps[2].attempted /\ ~ai_call.steps[2].failed
    /\ ai_call.logged = <<"AI Summary Generation Failed">>
    /\ ai_call.added # <<>>

-----------------------------------------------------------------------------
(* helpdesk/debug_fix_customers.py: fix_tickets_without_customer *)

\* addresses of the company's own domain: "tortoise.pro" in email.lower()
TortoiseEmails == {"support@tortoise.pro", "Agent@Tortoise.Pro"}
IsTortoise(email) == email \in TortoiseEmails

\* frappe.get_all("HD Ticket", filters={"customer": ["is", "not set"]},
\* limit=limit, order_by="modified desc"): the names of the tickets without
\* customer, latest first (a ticket's name is its place in the table, and the
\* later ticket was modified later), cut to limit
RECURSIVE WithoutCustomer(_, _)
WithoutCustomer(db, n) ==
    IF n = 0 THEN <<>>
    ELSE IF db[n].customer = "" THEN <<n>> \o WithoutCustomer(db, n - 1)
    ELSE WithoutCustomer(db, n - 1)

NoLimit == 0 - 1
get_all(db, limit) ==
    LET all == WithoutCustomer(db, Len(db))
    IN  IF limit = NoLimit \/ limit >= Len(all) THEN all ELSE SubSeq(all, 1, limit)

\* candidate_emails of a ticket: the participants that have an address outside
\* the company's domain, or else the address in the subject; a list without
\* repetition in the place of the set
RECURSIVE Distinct(_)
Distinct(xs) ==
    IF xs = <<>> THEN <<>>
    ELSE LET rest == Distinct(Tail(xs))
         IN  IF \E i \in 1..Len(rest) : rest[i] = Head(xs) THEN rest ELSE <<Head(xs)>> \o rest

CandidateEmails(row) ==
    LET participants == Distinct(SelectSeq(row.participant_emails,
                                           LAMBDA email : email # "" /\ ~IsTortoise(email)))
    IN  IF participants # <<>> THEN participants
        ELSE IF row.subject_email # "" /\ ~IsTortoise(row.subject_email)
        THEN <<row.subject_email>>
        ELSE <<>>

Reverse(xs) == [i \in 1..Len(xs) |-> xs[Len(xs) + 1 - i]]

\* the loop over candidate_emails from position i on: the customers of the
\* first address get_customer finds exactly one for, and the number of
\* addresses met before it that have several
RECURSIVE FindCustomer(_, _, _, _)
FindCustomer(emails, customers_of, i, multiple) ==
    IF i > Len(emails) THEN [found |-> FALSE, multiple |-> multiple]
    ELSE LET customers == customers_of[emails[i]]
         IN  IF customers = "raises" \/ customers = "none"
             THEN FindCustomer(emails, customers_of, i + 1, multiple)
             ELSE IF customers = "one"
             THEN [found |-> TRUE, multiple |-> multiple, customer_name |-> "ACME",
                   email_id |-> emails[i]]
             ELSE FindCustomer(emails, customers_of, i + 1, multiple + 1)

NoStats ==
    [total |-> 0, updated |-> 0, skipped_no_contact |-> 0, skipped_no_email |-> 0,
     skipped_multiple_customers |-> 0, skipped_no_customers |-> 0]

\* an update that does not look at dry_run
UpdateTicket_AlwaysWrites(run, ticket_name, customer_name, dry_run, db_error) ==
    IF db_error
    THEN [run EXCEPT !.matched = Append(@, ticket_name)]
    ELSE [run EXCEPT !.matched = Append(@, ticket_name),
                     !.db[ticket_name].customer = customer_name,
                     !.writes = Append(@, [ticket_name |-> ticket_name,
                                           customer |-> customer_name]),
                     !.stats.updated = @ + 1]

\* lines 216-230: print, or set_value and count
UpdateTicket(run, ticket_name, customer_name, dry_run, db_error) ==
    IF dry_run \/ db_error
    THEN [run EXCEPT !.matched = Append(@, ticket_name)]
    ELSE [run EXCEPT !.matched = Append(@, ticket_name),
                     !.db[ticket_name].customer = customer_name,
                     !.writes = Append(@, [ticket_name |-> ticket_name,
                                           customer |-> customer_name]),
                     !.stats.updated = @ + 1]

\* the body of `for ticket in tickets`, for the ticket read before the loop
ProcessTicket(run, ticket_name, row, dry_run, customers_of, reversed, db_error) ==
    IF row.contact = ""
    THEN [run EXCEPT !.stats.skipped_no_contact = @ + 1]
    ELSE
    LET candidate_emails == CandidateEmails(row)
        emails == IF reversed THEN Reverse(candidate_emails) ELSE candidate_emails
        search == FindCustomer(emails, customers_of, 1, 0)
        counted == [run EXCEPT !.stats.skipped_multiple_customers = @ + search.multiple]
    IN  IF candidate_emails = <<>>
        THEN [run EXCEPT !.stats.skipped_no_email = @ + 1]
        ELSE IF ~search.found
        THEN [counted EXCEPT !.stats.skipped_no_customers = @ + 1]
        ELSE UpdateTicket(counted, ticket_name, search.customer_name, dry_run, db_error)

RECURSIVE ProcessTickets(_, _, _, _, _, _, _, _)
ProcessTickets(run, tickets, rows, i, dry_run, customers_of, reversed, db_error) ==
    IF i > Len(tickets) THEN run
    ELSE ProcessTickets(ProcessTicket(run, tickets[i], rows[tickets[i]], dry_run,
                                      customers_of, reversed, db_error),
                        tickets, rows, i + 1, dry_run, customers_of, reversed, db_error)

\* fix_tickets_without_customer(dry_run, limit) on the table db, where
\* get_customer answers customers_of, the set candidate_emails is walked in
\* one or the other order, and set_value fails or not: the table afterwards,
\* the set_value calls that went through, the commits, the tickets that
\* reached the update, and the stats returned
fix_tickets_without_customer(db, dry_run, limit, customers_of, reversed, db_error) ==
    LET tickets == get_all(db, limit)
        start == [db |-> db, writes |-> <<>>, commits |-> 0, matched |-> <<>>,
                  stats |-> [NoStats EXCEPT !.total = Len(tickets)]]
        done == ProcessTickets(start, tickets, db, 1, dry_run, customers_of, reversed, db_error)
    IN  IF tickets = <<>> THEN [start EXCEPT !.stats = NoStats]
        ELSE IF ~dry_run THEN [done EXCEPT !.commits = 1]
        ELSE done

-----------------------------------------------------------------------------
(* Specification of the fix script: any table of tickets, one run *)

MaxTickets == 2   \* tickets in the table, at most
MaxLimit == 2     \* the largest `limit` argument

CustomerEmails == {"a@x.com", "b@y.com"}

\* a ticket without customer: participants with no address, with an address
\* of the company, with one or two outside addresses, or a subject with an
\* address; a ticket without contact; a ticket that has its customer
TicketRows ==
    [customer : {""}, contact : {"contact-1"},
     participant_emails : { <<>>, <<"support@tortoise.pro", "">>, <<"a@x.com">>,
                            <<"a@x.com", "b@y.com">> },
     subject_email : {""}]
    \cup
    [customer : {""}, contact : {"contact-1"},
     participant_emails : { <<>> },
     subject_email : {"a@x.com", "Agent@Tortoise.Pro"}]
    \cup
    { [customer |-> "", contact |-> "", participant_emails |-> <<"a@x.com">>,
       subject_email |-> ""],
      [customer |-> "Globex", contact |-> "contact-1", participant_emails |-> <<"a@x.com">>,
       subject_email |-> ""] }

\* what get_customer(contact, email_id) gives: an error, no customer, one, several
CustomerAnswers == {"raises", "none", "one", "many"}

InitFix ==
    /\ \E n \in 0..MaxTickets : hd_tickets \in [1..n -> TicketRows]
    /\ fix_run = Pending
    /\ conditions = Unused /\ criterion = Unused
    /\ leaf = Unused /\ leaf_result = Unused
    /\ filters = Unused /\ parsed = Unused
    /\ settings = Unused /\ api_call = Unused
    /\ last_save = Unused
    /\ hd_settings = Unused /\ ticket = Unused
    /\ tag_list = Unused /\ ai_call = Unused

\* one run of the script
FixTicketsWithoutCustomer ==
    /\ fix_run = Pending
    /\ \E dry_run \in BOOLEAN, limit \in {NoLimit} \cup 1..MaxLimit,
          customers_of \in [CustomerEmails -> CustomerAnswers],
          reversed \in BOOLEAN, db_error \in BOOLEAN :
          LET run == fix_tickets_without_customer(hd_tickets, dry_run, limit, customers_of,
                                                  reversed, db_error)
          IN  /\ hd_tickets' = run.db
              /\ fix_run' = [dry_run |-> dry_run, limit |-> limit, before |-> hd_tickets,
                             writes |-> run.writes, commits |-> run.commits,
                             matched |-> run.matched, stats |-> run.stats]
    /\ UNCHANGED <<NotAI, hd_settings, ticket, tag_list, ai_call>>

NextFix == FixTicketsWithoutCustomer

SpecFix == InitFix /\ [][NextFix]_vars

-----------------------------------------------------------------------------
(* Claim about the fix script *)

\* C16: a run with dry_run True leaves every ticket's customer as it was,
\* makes no set_value call and no commit, and returns stats with updated 0,
\* whatever the tickets and the limit.
C16_DryRunChangesNothing ==
    (fix_run # Pending /\ fix_run.dry_run) =>
        /\ hd_tickets = fix_run.before
        /\ fix_run.writes = <<>>
        /\ fix_run.commits = 0
        /\ fix_run.stats.updated = 0

\* C16 witness: a dry run over two tickets without customer found exactly one
\* customer for both, and changed neither.
C16_Witness ==
    /\ fix_run # Pending /\ fix_run.dry_run
    /\ fix_run.stats.total = 2
    /\ Len(fix_run.matched) = 2
    /\ hd_tickets = fix_run.before
    /\ \A i \in 1..Len(hd_tickets) : hd_tickets[i].customer = ""

\* a live run, for comparison: it wrote the customers and committed
C16_LiveRunReached ==
    /\ fix_run # Pending /\ ~fix_run.dry_run
    /\ fix_run.stats.updated = 2 /\ fix_run.commits = 1
    /\ \A i \in 1..Len(hd_tickets) : hd_tickets[i].customer = "ACME"

=============================================================================
